---- MODULE Spec2Model ----
(***************************************************************************)
(* LSA artifact validation engine.                                         *)
(*                                                                         *)
(* An artifact is a record of four entity lists (premises, inferences,     *)
(* contradictions, conclusions).  Ids are strings.  Confidences are kept   *)
(* in hundredths (0.70 is 70), so that the 1.1 multiplier and the 0.8      *)
(* ceiling are compared exactly: c/100 > (m/100)*1.1 iff 10*c > 11*m, and  *)
(* the IEEE-754 double comparison of the source agrees with the exact one  *)
(* on every pair of hundredths in [-1.00, 2.00] x [0.00, 1.00].            *)
(***************************************************************************)
EXTENDS Integers, Sequences, FiniteSets, TLC

VARIABLES
    artifact,   \* the parsed artifact handed to the validators
    errors,     \* LSAValidator.errors of the validator instance
    warnings,   \* LSAValidator.warnings of the validator instance
    calls,      \* number of methods called on the validator instance so far
    ret         \* what the last call returned (or appended)

vars == <<artifact, errors, warnings, calls, ret>>

(* ------------------------------ helpers -------------------------------- *)

Range(s) == {s[i] : i \in 1..Len(s)}

SeqsUpTo(S, n) == UNION {[1..k -> S] : k \in 0..n}

RECURSIVE MinOf(_)
MinOf(s) ==
    IF Len(s) = 1 THEN s[1]
    ELSE LET m == MinOf(Tail(s)) IN IF s[1] <= m THEN s[1] ELSE m

\* dict[key] = value
Put(m, k, v) == [x \in (DOMAIN m) \cup {k} |-> IF x = k THEN v ELSE m[x]]

EmptyMap == [x \in {} |-> 0]


(* ------------------ validate_confidence.py ----------------------------- *)

\* One diagnostic.  The source formats a string; the record keeps what the
\* string names: the kind of finding, the entity it is about, the reference
\* it could not resolve, the value and the computed bound.
Err(kind, entity, id, ref, value, bound) ==
    [kind |-> kind, entity |-> entity, id |-> id, ref |-> ref,
     value |-> value, bound |-> bound]

NoRef == "-"

\* faulty variant: the upper end of the range is not checked
InRange_NoUpperBound(conf) == 0 <= conf

\* 0 <= conf <= 1, in hundredths
InRange(conf) == 0 <= conf /\ conf <= 100

\* faulty variant: no methodology bonus, min_support * 1.0
MaxAllowed_NoBonus(min_support) == min_support * 10

\* min_support * 1.1, in thousandths
MaxAllowed(min_support) == min_support * 11

\* inf_conf > max_allowed, both sides in thousandths
ExceedsMaxAllowed(inf_conf, max_allowed) == inf_conf * 10 > max_allowed

\* the contestation ceiling 0.8, in hundredths
ContestedCeiling == 80

\* faulty variant: the ceiling itself is rejected, conc_conf >= 0.8
ContestedTooHigh_Inclusive(contested_by, conc_conf) ==
    contested_by # <<>> /\ conc_conf >= ContestedCeiling

\* contested_by and conc_conf > 0.8
ContestedTooHigh(contested_by, conc_conf) ==
    contested_by # <<>> /\ conc_conf > ContestedCeiling

\* body of the loop over premises
PremiseStep(premise, st) ==
    IF ~premise.has_confidence
    THEN [st EXCEPT !.errors =
            Append(@, Err("missing", "Premise", premise.id, NoRef, 0, 0))]
    ELSE [confidences |-> Put(st.confidences, premise.id, premise.confidence),
          errors |->
            IF ~InRange(premise.confidence)
            THEN Append(st.errors,
                        Err("invalid", "Premise", premise.id, NoRef,
                            premise.confidence, 0))
            ELSE st.errors]

\* the inner loop over support_ids: the resolved confidences, in order
RECURSIVE SupportConfs(_, _)
SupportConfs(support_ids, confidences) ==
    IF support_ids = <<>> THEN <<>>
    ELSE LET rest == SupportConfs(Tail(support_ids), confidences)
         IN  IF Head(support_ids) \in DOMAIN confidences
             THEN <<confidences[Head(support_ids)]>> \o rest
             ELSE rest

\* the inner loop over support_ids: one error per unresolved id, in order
RECURSIVE UnknownSupportErrors(_, _, _)
\* faulty variant: an unresolved support id is skipped without a word
UnknownSupportErrors_Skipped(inf_id, support_ids, confidences) == <<>>

UnknownSupportErrors(inf_id, support_ids, confidences) ==
    IF support_ids = <<>> THEN <<>>
    ELSE LET rest == UnknownSupportErrors(inf_id, Tail(support_ids), confidences)
         IN  IF Head(support_ids) \in DOMAIN confidences
             THEN rest
             ELSE <<Err("unknown_support", "Inference", inf_id,
                        Head(support_ids), 0, 0)>> \o rest

\* body of the loop over inferences
InferenceStep(inference, st) ==
    IF ~inference.has_confidence
    THEN [st EXCEPT !.errors =
            Append(@, Err("missing", "Inference", inference.id, NoRef, 0, 0))]
    ELSE IF ~InRange(inference.confidence)
    THEN [st EXCEPT !.errors =
            Append(@, Err("invalid", "Inference", inference.id, NoRef,
                          inference.confidence, 0))]
    ELSE IF inference.supports = <<>>
    THEN [st EXCEPT !.errors =
            Append(@, Err("no_supports", "Inference", inference.id, NoRef, 0, 0))]
    ELSE LET support_confs == SupportConfs(inference.supports, st.confidences)
             errs1 == st.errors \o
                      UnknownSupportErrors(inference.id, inference.supports,
                                           st.confidences)
             errs2 ==
                IF support_confs # <<>>
                   /\ ExceedsMaxAllowed(inference.confidence,
                                        MaxAllowed(MinOf(support_confs)))
                THEN Append(errs1,
                            Err("exceeds", "Inference", inference.id, NoRef,
                                inference.confidence,
                                MaxAllowed(MinOf(support_confs))))
                ELSE errs1
         IN  [confidences |-> Put(st.confidences, inference.id,
                                  inference.confidence),
              errors |-> errs2]

\* body of the loop over conclusions
ConclusionStep(conclusion, st) ==
    IF ~conclusion.has_confidence
    THEN [st EXCEPT !.errors =
            Append(@, Err("missing", "Conclusion", conclusion.id, NoRef, 0, 0))]
    ELSE IF ~InRange(conclusion.confidence)
    THEN [st EXCEPT !.errors =
            Append(@, Err("invalid", "Conclusion", conclusion.id, NoRef,
                          conclusion.confidence, 0))]
    ELSE [confidences |-> Put(st.confidences, conclusion.id,
                              conclusion.confidence),
          errors |->
            IF ContestedTooHigh(conclusion.contested_by, conclusion.confidence)
            THEN Append(st.errors,
                        Err("contested", "Conclusion", conclusion.id, NoRef,
                            conclusion.confidence, ContestedCeiling))
            ELSE st.errors]

RECURSIVE PremiseLoop(_, _)
PremiseLoop(premises, st) ==
    IF premises = <<>> THEN st
    ELSE PremiseLoop(Tail(premises), PremiseStep(Head(premises), st))

RECURSIVE InferenceLoop(_, _)
InferenceLoop(inferences, st) ==
    IF inferences = <<>> THEN st
    ELSE InferenceLoop(Tail(inferences), InferenceStep(Head(inferences), st))

RECURSIVE ConclusionLoop(_, _)
ConclusionLoop(conclusions, st) ==
    IF conclusions = <<>> THEN st
    ELSE ConclusionLoop(Tail(conclusions), ConclusionStep(Head(conclusions), st))

\* validate_confidence_propagation(lsa_artifact) -> (is_valid, errors)
validate_confidence_propagation(lsa_artifact) ==
    LET st0 == [confidences |-> EmptyMap, errors |-> <<>>]
        st1 == PremiseLoop(lsa_artifact.premises, st0)
        st2 == InferenceLoop(lsa_artifact.inferences, st1)
        st3 == ConclusionLoop(lsa_artifact.conclusions, st2)
    IN  [is_valid |-> Len(st3.errors) = 0, errors |-> st3.errors]


(* ------------------ validate_lsa_structure.py -------------------------- *)

\* One warning: the orphan summary carries the count and the ids it lists (the
\* source lists at most ten of them; the bounds below stay under ten), the
\* contradiction warning the contradiction id.
Warn(kind, id, count, ids) == [kind |-> kind, id |-> id, count |-> count, ids |-> ids]

\* {e["id"] for e in entities}
IdsOf(entities) == {entities[i].id : i \in DOMAIN entities}

\* graph = {}; graph[inf_id] = supports, for each inference in order.  A Python
\* dict keeps its keys in order of first insertion and the value of the last
\* assignment.
RECURSIVE BuildGraph(_, _)
BuildGraph(inferences, graph) ==
    IF inferences = <<>> THEN graph
    ELSE LET inf == Head(inferences)
         IN  BuildGraph(Tail(inferences),
                        [keys |-> IF inf.id \in Range(graph.keys) THEN graph.keys
                                  ELSE Append(graph.keys, inf.id),
                         map |-> Put(graph.map, inf.id, inf.supports)])

EmptyGraph == [keys |-> <<>>, map |-> [x \in {} |-> <<>>]]

\* graph.get(node, [])
GraphGet(graph, node) == IF node \in DOMAIN graph.map THEN graph.map[node] ELSE <<>>

\* has_cycle(node, visited, rec_stack): the recursive DFS.  visited and
\* rec_stack are mutable sets shared with the caller, so the result carries
\* them back; on a TRUE return the source leaves rec_stack as it is.
RECURSIVE has_cycle(_, _, _, _)
RECURSIVE NeighborLoop(_, _, _, _, _)
\* faulty variant: rec_stack.add(node) is forgotten
has_cycle_NoRecStack(graph, node, visited, rec_stack) ==
    NeighborLoop(graph, node, GraphGet(graph, node), visited \cup {node}, rec_stack)

has_cycle(graph, node, visited, rec_stack) ==
    NeighborLoop(graph, node, GraphGet(graph, node),
                 visited \cup {node}, rec_stack \cup {node})

NeighborLoop(graph, node, neighbors, visited, rec_stack) ==
    IF neighbors = <<>>
    THEN [found |-> FALSE, visited |-> visited, rec_stack |-> rec_stack \ {node}]
    ELSE LET neighbor == Head(neighbors)
         IN  IF neighbor \notin visited
             THEN LET r == has_cycle(graph, neighbor, visited, rec_stack)
                  IN  IF r.found THEN r
                      ELSE NeighborLoop(graph, node, Tail(neighbors),
                                        r.visited, r.rec_stack)
             ELSE IF neighbor \in rec_stack
             THEN [found |-> TRUE, visited |-> visited, rec_stack |-> rec_stack]
             ELSE NeighborLoop(graph, node, Tail(neighbors), visited, rec_stack)

\* for node in graph: if node not in visited: if has_cycle(node, visited, set())
RECURSIVE CycleLoop(_, _, _, _)
CycleLoop(graph, nodes, visited, errs) ==
    IF nodes = <<>> THEN errs
    ELSE LET node == Head(nodes)
         IN  IF node \in visited
             THEN CycleLoop(graph, Tail(nodes), visited, errs)
             ELSE LET r == has_cycle(graph, node, visited, {})
                  IN  CycleLoop(graph, Tail(nodes), r.visited,
                                IF r.found
                                THEN Append(errs, Err("circular", "Inference",
                                                      node, NoRef, 0, 0))
                                ELSE errs)

\* check_circular_dependencies: the errors it appends
check_circular_dependencies(a) ==
    LET graph == BuildGraph(a.inferences, EmptyGraph)
    IN  CycleLoop(graph, graph.keys, {}, <<>>)

\* valid_ids of check_dangling_references and of check_contradiction_targets:
\* the ids of premises, inferences and conclusions
ValidIds(a) == IdsOf(a.premises) \cup IdsOf(a.inferences) \cup IdsOf(a.conclusions)

\* faulty variant: contested_by is resolved against the ids of every kind
ContradictionIds_AnyKind(a) == ValidIds(a) \cup IdsOf(a.contradictions)

\* contradiction_ids of check_dangling_references
ContradictionIds(a) == IdsOf(a.contradictions)

\* for ref in refs: if ref not in known: errors.append(...)
RECURSIVE UnknownRefErrors(_, _, _, _, _)
UnknownRefErrors(kind, entity, id, refs, known) ==
    IF refs = <<>> THEN <<>>
    ELSE LET rest == UnknownRefErrors(kind, entity, id, Tail(refs), known)
         IN  IF Head(refs) \notin known
             THEN <<Err(kind, entity, id, Head(refs), 0, 0)>> \o rest
             ELSE rest

RECURSIVE DanglingInferenceLoop(_, _)
DanglingInferenceLoop(inferences, valid_ids) ==
    IF inferences = <<>> THEN <<>>
    ELSE UnknownRefErrors("unknown_id", "Inference", Head(inferences).id,
                          Head(inferences).supports, valid_ids)
         \o DanglingInferenceLoop(Tail(inferences), valid_ids)

RECURSIVE DanglingConclusionLoop(_, _, _)
DanglingConclusionLoop(conclusions, valid_ids, contradiction_ids) ==
    IF conclusions = <<>> THEN <<>>
    ELSE UnknownRefErrors("unknown_id", "Conclusion", Head(conclusions).id,
                          Head(conclusions).supports, valid_ids)
         \o UnknownRefErrors("unknown_contradiction", "Conclusion",
                             Head(conclusions).id, Head(conclusions).contested_by,
                             contradiction_ids)
         \o DanglingConclusionLoop(Tail(conclusions), valid_ids, contradiction_ids)

\* check_dangling_references: the errors it appends
check_dangling_references(a) ==
    DanglingInferenceLoop(a.inferences, ValidIds(a))
    \o DanglingConclusionLoop(a.conclusions, ValidIds(a), ContradictionIds(a))

\* faulty variant: the targets of contradictions are not collected
ReferencedIds_NoTargets(a) ==
    UNION {Range(a.inferences[i].supports) : i \in DOMAIN a.inferences}
    \cup UNION {Range(a.conclusions[i].supports) : i \in DOMAIN a.conclusions}

\* referenced_ids of check_orphaned_elements
ReferencedIds(a) ==
    UNION {Range(a.inferences[i].supports) : i \in DOMAIN a.inferences}
    \cup UNION {Range(a.conclusions[i].supports) : i \in DOMAIN a.conclusions}
    \cup UNION {Range(a.contradictions[i].targets) : i \in DOMAIN a.contradictions}

\* orphaned = all_ids - referenced_ids - conclusion_ids
Orphaned(a) ==
    ((IdsOf(a.premises) \cup IdsOf(a.inferences)) \ ReferencedIds(a))
        \ IdsOf(a.conclusions)

\* check_orphaned_elements: the warnings it appends
check_orphaned_elements(a) ==
    IF Orphaned(a) # {}
    THEN <<Warn("orphans", NoRef, Cardinality(Orphaned(a)), Orphaned(a))>>
    ELSE <<>>

\* faulty variant: any contested conclusion counts, whoever contests it
ContestedConclusions_AnyContester(a, contradiction) ==
    {i \in DOMAIN a.conclusions : a.conclusions[i].contested_by # <<>>}
\* contested_conclusions of check_contradiction_targets is non-empty
ContestedConclusions(a, contradiction) ==
    {i \in DOMAIN a.conclusions : contradiction.id \in Range(a.conclusions[i].contested_by)}

\* check_contradiction_targets: the errors and warnings it appends
RECURSIVE ContradictionLoop(_, _, _)
ContradictionLoop(a, contradictions, out) ==
    IF contradictions = <<>> THEN out
    ELSE LET contradiction == Head(contradictions)
             errs == UnknownRefErrors("unknown_target", "Contradiction",
                                      contradiction.id, contradiction.targets,
                                      ValidIds(a))
             warns == IF ContestedConclusions(a, contradiction) = {}
                         /\ contradiction.targets # <<>>
                      THEN <<Warn("unreferenced_contradiction", contradiction.id,
                                  0, {})>>
                      ELSE <<>>
         IN  ContradictionLoop(a, Tail(contradictions),
                               [errors |-> out.errors \o errs,
                                warnings |-> out.warnings \o warns])

check_contradiction_targets(a) ==
    ContradictionLoop(a, a.contradictions, [errors |-> <<>>, warnings |-> <<>>])

\* faulty variant: a warning fails the gate too
validate_all_WarningsFail(a, errs, warns) ==
    LET e == errs \o check_circular_dependencies(a)
                  \o check_dangling_references(a)
                  \o check_contradiction_targets(a).errors
        w == warns \o check_orphaned_elements(a)
                   \o check_contradiction_targets(a).warnings
    IN  [is_valid |-> Len(e) = 0 /\ Len(w) = 0, errors |-> e, warnings |-> w]

\* validate_all on a validator whose lists hold errs and warns: the four
\* checks in order, each appending to self.errors / self.warnings
validate_all(a, errs, warns) ==
    LET e == errs \o check_circular_dependencies(a)
                  \o check_dangling_references(a)
                  \o check_contradiction_targets(a).errors
        w == warns \o check_orphaned_elements(a)
                   \o check_contradiction_targets(a).warnings
    IN  [is_valid |-> Len(e) = 0, errors |-> e, warnings |-> w]

(* ------------------------- bounded inputs ------------------------------ *)

MaxPremises == 2
MaxInferences == 2
MaxConclusions == 2
MaxSupports == 2
MaxEntities == 3

\* an entity without a "confidence" key carries has_confidence = FALSE
Confidence(values) ==
    {[has |-> TRUE, value |-> v] : v \in values} \cup {[has |-> FALSE, value |-> 0]}

ConfPremises ==
    {[id |-> i, has_confidence |-> c.has, confidence |-> c.value] :
        i \in {"p1"}, c \in Confidence({60, 70, 120})}

ConfInferences ==
    {[id |-> i, has_confidence |-> c.has, confidence |-> c.value, supports |-> s] :
        i \in {"i1", "i2"}, c \in Confidence({75, 77, 80, 120}),
        s \in SeqsUpTo({"p1", "i1"}, MaxSupports)}

ConfConclusions ==
    {[id |-> "c1", has_confidence |-> c.has, confidence |-> c.value,
      supports |-> <<>>, contested_by |-> k] :
        c \in Confidence({79, 80, 85, 120}), k \in SeqsUpTo({"k1"}, MaxSupports)}

\* the shapes (numbers of premises, inferences, conclusions) within the bounds
ConfShapes ==
    {sh \in (0..MaxPremises) \X (0..MaxInferences) \X (0..MaxConclusions) :
        sh[1] + sh[2] + sh[3] <= MaxEntities}

\* the artifacts of the given shape
ConfArtifactOfShape(a, sh) ==
    \E p \in [1..sh[1] -> ConfPremises],
       i \in [1..sh[2] -> ConfInferences],
       c \in [1..sh[3] -> ConfConclusions] :
        a = [premises |-> p, inferences |-> i, contradictions |-> <<>>,
             conclusions |-> c]

(* --------------------- confidence gate: state machine ------------------ *)

NotCalled == [op |-> "none"]

InitConf ==
    /\ \E sh \in ConfShapes : ConfArtifactOfShape(artifact, sh)
    /\ errors = <<>>
    /\ warnings = <<>>
    /\ calls = 0
    /\ ret = NotCalled

\* is_valid, errors = validate_confidence_propagation(artifact)
ValidateConfidence ==
    /\ ret = NotCalled
    /\ LET r == validate_confidence_propagation(artifact)
       IN  ret' = [op |-> "validate_confidence_propagation",
                   is_valid |-> r.is_valid, errors |-> r.errors]
    /\ UNCHANGED <<artifact, errors, warnings, calls>>

NextConf == ValidateConfidence

SpecConf == InitConf /\ [][NextConf]_vars


(* --------------------- structure gate: state machine ------------------- *)

MaxCycleInferences == 3
MaxCycleEdges == 3
MaxEach == 1
MaxContradictions == 2
MaxLinks == 1
MaxCalls == 1

\* the ids of the inferences that support one another
CycleIds == {"i1", "i2", "i3"}

\* The supports of the j-th inference, when the support entries of all the
\* inferences are laid out one after the other: entry k belongs to inference
\* owner[k] (owner is non-decreasing) and names target[k].
SupportsOf(j, owner, target) ==
    LET first == Cardinality({k \in DOMAIN owner : owner[k] < j})
        count == Cardinality({k \in DOMAIN owner : owner[k] = j})
    IN  [x \in 1..count |-> target[first + x]]

\* ids that the supports lists of the structure inputs may hold: a premise, an
\* inference, a contradiction and a conclusion id (unresolved when the entity
\* is not declared)
StructRefs == {"p1", "i1", "k1", "c1"}

\* ids that targets may hold: an inference, a conclusion, a contradiction
StructTargets == {"i1", "c1", "k1"}

\* ids that contested_by may hold: a contradiction id and a premise id
StructContesters == {"k1", "p1"}

StructPremises == {[id |-> i] : i \in {"p1", "c1"}}

StructInferences ==
    {[id |-> "i1", supports |-> s] : s \in SeqsUpTo(StructRefs, MaxLinks)}

\* the j-th contradiction is named k<j>
ContradictionNames == <<"k1", "k2", "k3">>

StructContradictions(n) ==
    {k \in [1..n -> [id : Range(ContradictionNames),
                     targets : SeqsUpTo(StructTargets, MaxLinks)]] :
        \A j \in 1..n : k[j].id = ContradictionNames[j]}

StructConclusions ==
    {[id |-> "c1", supports |-> s, contested_by |-> c] :
        s \in SeqsUpTo(StructRefs, MaxLinks),
        c \in SeqsUpTo(StructContesters, MaxLinks)}

\* LSAValidator(artifact): errors = [], warnings = []
InitValidator ==
    /\ errors = <<>>
    /\ warnings = <<>>
    /\ calls = 0
    /\ ret = NotCalled

\* up to MaxCycleInferences inferences with up to MaxCycleEdges support
\* entries between them, ids and entries drawn from CycleIds
InitCycle ==
    /\ \E n \in 0..MaxCycleInferences, m \in 0..MaxCycleEdges :
         \E ids \in [1..n -> CycleIds],
            owner \in [1..m -> 1..n],
            target \in [1..m -> CycleIds] :
            /\ \A k \in 1..(m - 1) : owner[k] <= owner[k + 1]
            /\ artifact =
                  [premises |-> <<>>,
                   inferences |->
                      [j \in 1..n |->
                          [id |-> ids[j], supports |-> SupportsOf(j, owner, target)]],
                   contradictions |-> <<>>, conclusions |-> <<>>]
    /\ InitValidator

InitStruct ==
    /\ \E p \in SeqsUpTo(StructPremises, MaxEach),
          i \in SeqsUpTo(StructInferences, MaxEach),
          k \in UNION {StructContradictions(n) : n \in 0..MaxContradictions},
          c \in SeqsUpTo(StructConclusions, MaxEach) :
          artifact = [premises |-> p, inferences |-> i,
                      contradictions |-> k, conclusions |-> c]
    /\ InitValidator

\* a method of the instance appends errs and warns
Appends(op, errs, warns) ==
    /\ calls < MaxCalls
    /\ calls' = calls + 1
    /\ errors' = errors \o errs
    /\ warnings' = warnings \o warns
    /\ ret' = [op |-> op, errors |-> errs, warnings |-> warns]
    /\ UNCHANGED artifact

CheckCircularDependencies ==
    Appends("check_circular_dependencies", check_circular_dependencies(artifact), <<>>)

CheckDanglingReferences ==
    Appends("check_dangling_references", check_dangling_references(artifact), <<>>)

CheckOrphanedElements ==
    Appends("check_orphaned_elements", <<>>, check_orphaned_elements(artifact))

CheckContradictionTargets ==
    Appends("check_contradiction_targets",
            check_contradiction_targets(artifact).errors,
            check_contradiction_targets(artifact).warnings)

\* is_valid, errors, warnings = validator.validate_all()
ValidateAll ==
    /\ calls < MaxCalls
    /\ calls' = calls + 1
    /\ LET r == validate_all(artifact, errors, warnings)
       IN  /\ errors' = r.errors
           /\ warnings' = r.warnings
           /\ ret' = [op |-> "validate_all", is_valid |-> r.is_valid,
                      errors |-> r.errors, warnings |-> r.warnings]
    /\ UNCHANGED artifact

\* how the structure CLI is invoked
Invocations == {"no_argument", "file_not_found", "invalid_json", "artifact"}

\* validate_lsa_file(filepath): a fresh validator per file
validate_lsa_file(invocation, a) ==
    IF invocation = "invalid_json"
    THEN [is_valid |-> FALSE,
          errors |-> <<Err("invalid_json", "File", NoRef, NoRef, 0, 0)>>,
          warnings |-> <<>>]
    ELSE validate_all(a, <<>>, <<>>)

\* main() of validate_lsa_structure.py: the exit code
StructureExitCode(invocation, a) ==
    IF invocation \in {"no_argument", "file_not_found"} THEN 1
    ELSE IF validate_lsa_file(invocation, a).is_valid THEN 0 ELSE 1

StructureMain ==
    /\ ret = NotCalled
    /\ \E invocation \in Invocations :
          LET r == validate_lsa_file(invocation, artifact)
              read == invocation \notin {"no_argument", "file_not_found"}
          IN  ret' = [op |-> "main", invocation |-> invocation,
                      exit_code |-> StructureExitCode(invocation, artifact),
                      errors |-> IF read THEN r.errors ELSE <<>>,
                      warnings |-> IF read THEN r.warnings ELSE <<>>]
    /\ UNCHANGED <<artifact, errors, warnings, calls>>

NextCycle == CheckCircularDependencies

SpecCycle == InitCycle /\ [][NextCycle]_vars

NextStruct ==
    \/ CheckCircularDependencies
    \/ CheckDanglingReferences
    \/ CheckOrphanedElements
    \/ CheckContradictionTargets
    \/ ValidateAll
    \/ StructureMain

SpecStruct == InitStruct /\ [][NextStruct]_vars

(* --------------------- structure gate: properties ---------------------- *)

Returned(op) == ret.op = op

\* some error of this kind is among errs
HasError(errs, kind) == \E k \in DOMAIN errs : errs[k].kind = kind

\* an error of this kind names the entity and the reference
Names(errs, kind, entity, id, ref) ==
    \E k \in DOMAIN errs :
        /\ errs[k].kind = kind /\ errs[k].entity = entity
        /\ errs[k].id = id /\ errs[k].ref = ref

\* edges from each inference id to the ids in its supports list
SupportEdges(a) ==
    UNION {{<<a.inferences[i].id, s>> : s \in Range(a.inferences[i].supports)} :
              i \in DOMAIN a.inferences}

\* the same, reading for each id the inference declared last under it
LastDeclaredEdges(a) ==
    UNION {{<<a.inferences[i].id, s>> : s \in Range(a.inferences[i].supports)} :
              i \in {j \in DOMAIN a.inferences :
                        \A l \in DOMAIN a.inferences :
                            a.inferences[l].id = a.inferences[j].id => l <= j}}

NodesOf(E) == {e[1] : e \in E} \cup {e[2] : e \in E}

\* pairs joined by a path of at most k+1 edges
RECURSIVE PathsUpTo(_, _)
PathsUpTo(E, k) ==
    IF k = 0 THEN E
    ELSE LET T == PathsUpTo(E, k - 1)
         IN  T \cup {p \in NodesOf(E) \X NodesOf(E) :
                        \E m \in NodesOf(E) : <<p[1], m>> \in T /\ <<m, p[2]>> \in E}

\* the nodes that lie on a cycle
OnCycle(E) ==
    {n \in NodesOf(E) : <<n, n>> \in PathsUpTo(E, Cardinality(NodesOf(E)))}

InferenceIdsDistinct(a) ==
    \A i, j \in DOMAIN a.inferences : a.inferences[i].id = a.inferences[j].id => i = j

\* C4 as stated: check_circular_dependencies appends at least one 'Circular
\* dependency detected' error iff the graph with an edge from each inference id
\* to every id in its supports list has a cycle.
C4_AsStated ==
    Returned("check_circular_dependencies") =>
        (HasError(ret.errors, "circular") <=> OnCycle(SupportEdges(artifact)) # {})

\* C4 amended: check_circular_dependencies appends at least one 'Circular
\* dependency detected' error iff the graph with an edge from each inference id
\* to every id in the supports list of the inference declared last under that
\* id has a cycle (a self-supporting inference counts); for pairwise distinct
\* inference ids this is the graph of the claim, in any declaration order.
C4_CycleIffError ==
    Returned("check_circular_dependencies") =>
        (HasError(ret.errors, "circular") <=> OnCycle(LastDeclaredEdges(artifact)) # {})

\* C4 witness: three distinct inferences on one cycle, reported
C4_Witness ==
    /\ Returned("check_circular_dependencies")
    /\ Len(artifact.inferences) = 3 /\ InferenceIdsDistinct(artifact)
    /\ Cardinality(OnCycle(SupportEdges(artifact))) = 3
    /\ \A i \in 1..3 : Len(artifact.inferences[i].supports) = 1
    /\ HasError(ret.errors, "circular")

\* C5: when the inference-supports graph has a cycle, the errors of
\* check_circular_dependencies name every inference id on it (for A supports B,
\* B supports A: both A and B).
C5_EveryParticipantNamed ==
    (Returned("check_circular_dependencies") /\ InferenceIdsDistinct(artifact)) =>
        \A n \in OnCycle(SupportEdges(artifact)) :
            \E k \in DOMAIN ret.errors :
                ret.errors[k].kind = "circular" /\ ret.errors[k].id = n

\* the ids of all entities of the artifact
AllIds(a) ==
    IdsOf(a.premises) \cup IdsOf(a.inferences)
        \cup IdsOf(a.contradictions) \cup IdsOf(a.conclusions)

\* the unresolved references C6 speaks about, as <<kind, entity, id, ref>>
C6_Unresolved(a) ==
    UNION {{<<"unknown_id", "Inference", a.inferences[i].id, s>> :
                s \in Range(a.inferences[i].supports) \ AllIds(a)} :
              i \in DOMAIN a.inferences}
    \cup UNION {{<<"unknown_id", "Conclusion", a.conclusions[i].id, s>> :
                s \in Range(a.conclusions[i].supports) \ AllIds(a)} :
              i \in DOMAIN a.conclusions}
    \cup UNION {{<<"unknown_target", "Contradiction", a.contradictions[i].id, t>> :
                t \in Range(a.contradictions[i].targets) \ AllIds(a)} :
              i \in DOMAIN a.contradictions}
    \cup UNION {{<<"unknown_contradiction", "Conclusion", a.conclusions[i].id, r>> :
                r \in Range(a.conclusions[i].contested_by) \ IdsOf(a.contradictions)} :
              i \in DOMAIN a.conclusions}

\* C6: each supports or targets entry that is the id of no entity, and each
\* contested_by entry that is not the id of a contradiction (be it the id of a
\* premise, inference or conclusion), yields an error naming the referencing
\* entity and the unresolved id, and validate_all then returns is_valid = false.
C6_UnresolvedIsError ==
    Returned("validate_all") =>
        /\ \A u \in C6_Unresolved(artifact) : Names(ret.errors, u[1], u[2], u[3], u[4])
        /\ C6_Unresolved(artifact) # {} => ~ret.is_valid

\* C6 witness: a conclusion contested by the id of an existing premise, with no
\* other unresolved reference
C6_Witness ==
    /\ Returned("validate_all")
    /\ Cardinality(C6_Unresolved(artifact)) = 1
    /\ \E c \in DOMAIN artifact.conclusions :
          \E r \in Range(artifact.conclusions[c].contested_by) :
              /\ r \in IdsOf(artifact.premises)
              /\ Names(ret.errors, "unknown_contradiction", "Conclusion",
                       artifact.conclusions[c].id, r)
    /\ ~ret.is_valid

\* C7: an inference whose supports hold the id of an existing conclusion or
\* contradiction (and of no premise or inference) is a hard reference error:
\* validate_all returns is_valid = false.
C7_WrongKindSupportRejected ==
    (/\ Returned("validate_all")
     /\ \E i \in DOMAIN artifact.inferences :
           \E s \in Range(artifact.inferences[i].supports) :
               /\ s \in IdsOf(artifact.conclusions) \cup IdsOf(artifact.contradictions)
               /\ s \notin IdsOf(artifact.premises) \cup IdsOf(artifact.inferences))
        => ~ret.is_valid

\* C8: a contradiction whose targets entry is the id of another existing
\* contradiction produces no 'targets unknown ID' error for it.
C8_ContradictionTargetResolves ==
    Returned("check_contradiction_targets") =>
        \A j \in DOMAIN artifact.contradictions :
            \A t \in Range(artifact.contradictions[j].targets) :
                (\E l \in DOMAIN artifact.contradictions :
                    l # j /\ artifact.contradictions[l].id = t)
                => ~Names(ret.errors, "unknown_target", "Contradiction",
                          artifact.contradictions[j].id, t)

\* C9: validate_all returns is_valid = true exactly when the errors list is
\* empty, whatever the warnings list holds, and the structure CLI, given a
\* readable artifact, exits 0 exactly when that validation found no error.
C9_WarningsNeverFlipGate ==
    /\ Returned("validate_all") => (ret.is_valid <=> ret.errors = <<>>)
    /\ (Returned("main") /\ ret.invocation = "artifact") =>
          /\ ret.exit_code \in {0, 1}
          /\ ret.exit_code = 0 <=> ret.errors = <<>>

\* C9 witness: the only findings are an orphan warning and a warning for a
\* contradiction no conclusion refers to; the artifact is valid
C9_Witness ==
    /\ Returned("validate_all")
    /\ ret.errors = <<>>
    /\ \E k \in DOMAIN ret.warnings : ret.warnings[k].kind = "orphans"
    /\ \E k \in DOMAIN ret.warnings : ret.warnings[k].kind = "unreferenced_contradiction"
    /\ ret.is_valid

\* C9 witness, CLI side: exit code 0 with warnings printed
C9_WitnessCli ==
    /\ Returned("main") /\ ret.invocation = "artifact"
    /\ ret.warnings # <<>>
    /\ ret.exit_code = 0

\* how many of the warnings say that the contradiction with this id is not
\* referenced by any conclusion
UnreferencedWarnings(warns, id) ==
    Cardinality({k \in DOMAIN warns :
                    warns[k].kind = "unreferenced_contradiction" /\ warns[k].id = id})

\* some conclusion lists this id in its contested_by
ListedAsContester(a, id) ==
    \E c \in DOMAIN a.conclusions : id \in Range(a.conclusions[c].contested_by)

\* C11: check_contradiction_targets emits one "not referenced by any
\* conclusion" warning per contradiction whose targets list is non-empty and
\* whose id is in no conclusion's contested_by, and none for a contradiction
\* that some conclusion lists in contested_by or whose targets are empty
\* (counted per id, as the warning names the contradiction by id).
C11_WarningPerUnreferencedContradiction ==
    Returned("check_contradiction_targets") =>
        \A id \in IdsOf(artifact.contradictions) :
            UnreferencedWarnings(ret.warnings, id) =
                Cardinality({j \in DOMAIN artifact.contradictions :
                                /\ artifact.contradictions[j].id = id
                                /\ artifact.contradictions[j].targets # <<>>
                                /\ ~ListedAsContester(artifact, id)})

\* C11 witness: two contradictions with targets, the first listed in a
\* conclusion's contested_by and not warned about, the second listed nowhere
\* and warned about once
C11_Witness ==
    /\ Returned("check_contradiction_targets")
    /\ Len(artifact.contradictions) = 2
    /\ artifact.contradictions[1].targets # <<>>
    /\ artifact.contradictions[2].targets # <<>>
    /\ ListedAsContester(artifact, artifact.contradictions[1].id)
    /\ ~ListedAsContester(artifact, artifact.contradictions[2].id)
    /\ UnreferencedWarnings(ret.warnings, artifact.contradictions[1].id) = 0
    /\ UnreferencedWarnings(ret.warnings, artifact.contradictions[2].id) = 1
\* ids that some supports or targets list holds
C10_Referenced(a) ==
    {id \in AllIds(a) \cup StructRefs :
        \/ \E i \in DOMAIN a.inferences : id \in Range(a.inferences[i].supports)
        \/ \E i \in DOMAIN a.conclusions : id \in Range(a.conclusions[i].supports)
        \/ \E i \in DOMAIN a.contradictions : id \in Range(a.contradictions[i].targets)}

\* premise and inference ids that nothing references
C10_Unreferenced(a) ==
    (IdsOf(a.premises) \cup IdsOf(a.inferences)) \ C10_Referenced(a)

OrphanWarnings(warns) == {k \in DOMAIN warns : warns[k].kind = "orphans"}

\* C10 as stated: an orphan warning is emitted iff some premise id or inference
\* id appears in no supports and no targets list; the count is the number of
\* such ids; no conclusion id is counted.
C10_AsStated ==
    Returned("check_orphaned_elements") =>
        /\ OrphanWarnings(ret.warnings) # {} <=> C10_Unreferenced(artifact) # {}
        /\ \A k \in OrphanWarnings(ret.warnings) :
              /\ ret.warnings[k].count = Cardinality(C10_Unreferenced(artifact))
              /\ ret.warnings[k].ids \cap IdsOf(artifact.conclusions) = {}

\* C10 amended: an orphan warning is emitted iff some premise id or inference
\* id that is not also the id of a conclusion appears in no inference's
\* supports, no conclusion's supports and no contradiction's targets; the count
\* is the number of such ids, and no conclusion id is counted.
C10_OrphanIffUnreferenced ==
    Returned("check_orphaned_elements") =>
        LET orphans == C10_Unreferenced(artifact) \ IdsOf(artifact.conclusions)
        IN  /\ OrphanWarnings(ret.warnings) # {} <=> orphans # {}
            /\ Cardinality(OrphanWarnings(ret.warnings)) <= 1
            /\ \A k \in OrphanWarnings(ret.warnings) :
                  /\ ret.warnings[k].count = Cardinality(orphans)
                  /\ ret.warnings[k].ids = orphans

\* C10 witness: an unreferenced premise and an unreferenced inference next to
\* an unreferenced conclusion: two orphans
C10_Witness ==
    /\ Returned("check_orphaned_elements")
    /\ Len(artifact.conclusions) = 1
    /\ artifact.conclusions[1].id \notin C10_Referenced(artifact)
    /\ \E k \in OrphanWarnings(ret.warnings) :
          /\ ret.warnings[k].count = 2
          /\ artifact.conclusions[1].id \notin ret.warnings[k].ids

(* --------------------- confidence gate: properties --------------------- *)

ConfidenceReturned == ret.op = "validate_confidence_propagation"

\* how many of the returned errors are of this kind and name this id
ErrorCount(errs, kind, id) ==
    Cardinality({k \in DOMAIN errs : errs[k].kind = kind /\ errs[k].id = id})

\* the confidence map as it stands when the i-th inference is reached
ConfidencesBefore(i) ==
    InferenceLoop(SubSeq(artifact.inferences, 1, i - 1),
                  PremiseLoop(artifact.premises,
                              [confidences |-> EmptyMap, errors |-> <<>>])).confidences

\* the case C1 speaks about: confidence present and in [0,1], supports
\* non-empty, at least one support id already in the confidence map
C1_Case(i) ==
    LET inf == artifact.inferences[i]
    IN  /\ inf.has_confidence
        /\ 0 <= inf.confidence /\ inf.confidence <= 100
        /\ inf.supports # <<>>
        /\ \E s \in Range(inf.supports) : s \in DOMAIN ConfidencesBefore(i)

\* confidence > 1.1 x min(resolved supports), exactly: every resolved support
\* confidence m has 10*c > 11*m for the least m
C1_AboveBound(i) ==
    LET inf == artifact.inferences[i]
        m == ConfidencesBefore(i)
        resolved == {m[s] : s \in Range(inf.supports) \cap DOMAIN m}
    IN  \E least \in resolved :
            /\ \A r \in resolved : least <= r
            /\ 10 * inf.confidence > 11 * least

\* C1: for every inference whose confidence is present and within [0,1], whose
\* supports are non-empty and of which at least one is already in the confidence
\* map, an 'exceeds maximum allowed' error is reported iff its confidence is
\* strictly above 1.1 times the least confidence of its resolved supports.
\* Errors name the inference by id, so the statement counts per id: as many
\* 'exceeds' errors name an id as there are such inferences above their bound.
C1_ExceedsIffAboveBound ==
    ConfidenceReturned =>
        \A id \in {artifact.inferences[i].id : i \in DOMAIN artifact.inferences} :
            ErrorCount(ret.errors, "exceeds", id) =
                Cardinality({i \in DOMAIN artifact.inferences :
                                /\ artifact.inferences[i].id = id
                                /\ C1_Case(i)
                                /\ C1_AboveBound(i)})

\* C1 witness: one premise of confidence 0.70 supports an inference of 0.75
\* (accepted) and an inference of 0.80 (rejected)
C1_Witness ==
    /\ ConfidenceReturned
    /\ Len(artifact.premises) = 1 /\ artifact.premises[1].has_confidence
    /\ artifact.premises[1].confidence = 70
    /\ Len(artifact.inferences) = 2
    /\ artifact.inferences[1] =
          [id |-> "i1", has_confidence |-> TRUE, confidence |-> 75,
           supports |-> <<"p1">>]
    /\ artifact.inferences[2] =
          [id |-> "i2", has_confidence |-> TRUE, confidence |-> 80,
           supports |-> <<"p1">>]
    /\ ErrorCount(ret.errors, "exceeds", "i1") = 0
    /\ ErrorCount(ret.errors, "exceeds", "i2") = 1

\* premises, inferences and conclusions: the entities that carry the ids the
\* confidence gate reads
ConfEntities(a) ==
    [kind : {"premise"}, idx : DOMAIN a.premises]
    \cup [kind : {"inference"}, idx : DOMAIN a.inferences]
    \cup [kind : {"conclusion"}, idx : DOMAIN a.conclusions]

EntityAt(a, e) ==
    IF e.kind = "premise" THEN a.premises[e.idx]
    ELSE IF e.kind = "inference" THEN a.inferences[e.idx]
    ELSE a.conclusions[e.idx]

ConfIdsUnique(a) ==
    \A e1, e2 \in ConfEntities(a) :
        EntityAt(a, e1).id = EntityAt(a, e2).id => e1 = e2

\* C2: when the confidence gate returns is_valid = true for an artifact with
\* unique ids, every inference has confidence <= 1.1 x the confidence of every
\* id in its supports, every premise, inference and conclusion confidence lies
\* in [0,1], and every contested conclusion has confidence <= 0.8.
C2_ValidImpliesBounds ==
    (ConfidenceReturned /\ ret.is_valid /\ ConfIdsUnique(artifact)) =>
        /\ \A e \in ConfEntities(artifact) :
              /\ EntityAt(artifact, e).has_confidence
              /\ 0 <= EntityAt(artifact, e).confidence
              /\ EntityAt(artifact, e).confidence <= 100
        /\ \A i \in DOMAIN artifact.inferences :
              /\ artifact.inferences[i].supports # <<>>
              /\ \A s \in Range(artifact.inferences[i].supports) :
                    \E e \in ConfEntities(artifact) :
                        /\ EntityAt(artifact, e).id = s
                        /\ EntityAt(artifact, e).has_confidence
                        /\ 10 * artifact.inferences[i].confidence
                              <= 11 * EntityAt(artifact, e).confidence
        /\ \A c \in DOMAIN artifact.conclusions :
              artifact.conclusions[c].contested_by # <<>> =>
                  artifact.conclusions[c].confidence <= 80

\* C2 witness: a valid artifact with unique ids holding a premise, an inference
\* that rests on it and a contested conclusion
C2_Witness ==
    /\ ConfidenceReturned /\ ret.is_valid /\ ConfIdsUnique(artifact)
    /\ Len(artifact.premises) = 1
    /\ Len(artifact.inferences) = 1
    /\ Len(artifact.conclusions) = 1
    /\ artifact.conclusions[1].contested_by # <<>>

\* C3: a conclusion whose confidence is present and in [0,1] produces a
\* contestation error iff its contested_by is non-empty and its confidence is
\* strictly above 0.8 (counted per id, as errors name the conclusion by id); a
\* conclusion without such a confidence produces none.
C3_ContestedIffAboveCeiling ==
    ConfidenceReturned =>
        \A id \in {artifact.conclusions[c].id : c \in DOMAIN artifact.conclusions} :
            ErrorCount(ret.errors, "contested", id) =
                Cardinality({c \in DOMAIN artifact.conclusions :
                                /\ artifact.conclusions[c].id = id
                                /\ artifact.conclusions[c].has_confidence
                                /\ 0 <= artifact.conclusions[c].confidence
                                /\ artifact.conclusions[c].confidence <= 100
                                /\ artifact.conclusions[c].contested_by # <<>>
                                /\ artifact.conclusions[c].confidence > 80})

\* C3 witness: a contested conclusion at exactly 0.8 next to a contested one at
\* 0.85: one contestation error
C3_Witness ==
    /\ ConfidenceReturned
    /\ Len(artifact.conclusions) = 2
    /\ artifact.conclusions[1].has_confidence /\ artifact.conclusions[1].confidence = 80
    /\ artifact.conclusions[1].contested_by # <<>>
    /\ artifact.conclusions[2].has_confidence /\ artifact.conclusions[2].confidence = 85
    /\ artifact.conclusions[2].contested_by # <<>>
    /\ ErrorCount(ret.errors, "contested", "c1") = 1

(* --------------------- contradiction coverage: algorithm --------------- *)

\* A claim (inference or conclusion) carries contradiction_check as a record:
\* present says whether the key is there, exempt and performed hold what
\* .get("exempt", False) and .get("performed") are taken for by `if` (an
\* absent key is false).  Without the key, .get("contradiction_check", {})
\* is the empty dict and both are false.
NoCheck == [present |-> FALSE, exempt |-> FALSE, performed |-> FALSE]

\* a float that is the quotient of two small integers, kept as the quotient
Ratio(n, d) == [num |-> n, den |-> d]

\* x >= y and x = y on such floats: len(a)/len(b) is the double nearest to the
\* quotient, so two quotients compare as the rationals do
Geq(x, y) == x.num * y.den >= y.num * x.den

SameRatio(x, y) == x.num * y.den = y.num * x.den

\* faulty variant: no claim is exempt
IsExempt_Never(claim) == FALSE

\* inf.get("contradiction_check", {}).get("exempt", False)
IsExempt(claim) == claim.contradiction_check.exempt

\* inf.get("contradiction_check", {}).get("performed")
IsPerformed(claim) == claim.contradiction_check.performed

\* the two loops that fill checkable and exempt, inferences first
RECURSIVE Partition(_, _)
Partition(claims, out) ==
    IF claims = <<>> THEN out
    ELSE LET claim == Head(claims)
         IN  Partition(Tail(claims),
                IF IsExempt(claim)
                THEN [out EXCEPT !.exempt = Append(@, claim.id)]
                ELSE [out EXCEPT !.checkable = Append(@, claim.id)])

\* checked: the targets of every contradiction and the ids of the claims
\* marked performed
CheckedIds(a) ==
    UNION {Range(a.contradictions[k].targets) : k \in DOMAIN a.contradictions}
    \cup {a.inferences[i].id : i \in {j \in DOMAIN a.inferences : IsPerformed(a.inferences[j])}}
    \cup {a.conclusions[i].id : i \in {j \in DOMAIN a.conclusions : IsPerformed(a.conclusions[j])}}

\* faulty variant: every checked id counts, checkable or not
CheckedCheckable_NoIntersection(checked, checkable) == checked

\* checked_checkable = checked.intersection(set(checkable))
CheckedCheckable(checked, checkable) == checked \cap Range(checkable)

\* coverage = len(checked_checkable) / total_checkable
CoverageRatio(checked_checkable, total_checkable) ==
    Ratio(Cardinality(checked_checkable), total_checkable)

\* the ids of the inputs in the order Python gives to strings
IdOrder ==
    <<"c1", "conclusion-1", "conclusion-2", "contradiction-1", "i1", "i2",
      "inference-1", "inference-2", "k1", "n1", "n10", "n11", "n12", "n2", "n3",
      "n4", "n5", "n6", "n7", "n8", "n9", "p1", "premise-1", "premise-2">>

\* faulty variant: the ids come out in descending order
SortedIds_Descending(ids) ==
    LET up == SelectSeq(IdOrder, LAMBDA id : id \in ids)
    IN  [k \in DOMAIN up |-> up[Len(up) + 1 - k]]

\* sorted(list(ids)) of a set of ids
SortedIds(ids) == SelectSeq(IdOrder, LAMBDA id : id \in ids)

\* calculate_contradiction_coverage(lsa_artifact)
calculate_contradiction_coverage(a) ==
    LET part == Partition(a.conclusions,
                          Partition(a.inferences, [checkable |-> <<>>, exempt |-> <<>>]))
        checkable == part.checkable
        total_checkable == Len(checkable)
        total_claims == Len(a.inferences) + Len(a.conclusions)
        checked == CheckedIds(a)
        checked_checkable == CheckedCheckable(checked, checkable)
        coverage == CoverageRatio(checked_checkable, total_checkable)
    IN  IF total_checkable = 0
        THEN [coverage |-> Ratio(1, 1),
              details |-> [total_claims |-> total_claims,
                           exempt_claims |-> Len(part.exempt),
                           checkable_claims |-> 0,
                           checked_claims |-> 0,
                           unchecked_claims |-> 0,
                           coverage |-> Ratio(1, 1),
                           unchecked_ids |-> <<>>,
                           exemptions |-> part.exempt]]
        ELSE [coverage |-> coverage,
              details |-> [total_claims |-> total_claims,
                           exempt_claims |-> Len(part.exempt),
                           checkable_claims |-> total_checkable,
                           checked_claims |-> Cardinality(checked_checkable),
                           unchecked_claims |-> total_checkable - Cardinality(checked_checkable),
                           coverage |-> coverage,
                           unchecked_ids |-> SortedIds(Range(checkable) \ checked),
                           exemptions |-> part.exempt]]

\* threshold: float = 0.90
DefaultThreshold == Ratio(90, 100)

\* faulty variant: the threshold itself fails
validate_threshold_Strict(coverage, threshold) == ~Geq(threshold, coverage)

\* validate_threshold(coverage, threshold)
validate_threshold(coverage, threshold) == Geq(coverage, threshold)

(* --------------------- contradiction coverage: state machine ----------- *)

MaxCovClaims == 2
MaxCovContradictions == 1
MaxCovTargets == 1
MaxUniformClaims == 10

\* contradiction_check of a claim: absent, or present with exempt and
\* performed each true or false
Checks ==
    {NoCheck} \cup {[present |-> TRUE, exempt |-> e, performed |-> p] :
                       e \in BOOLEAN, p \in BOOLEAN}

\* inferences and conclusions may share the id i1
CovInferences == {[id |-> i, contradiction_check |-> c] : i \in {"i1", "i2"}, c \in Checks}

CovConclusions == {[id |-> i, contradiction_check |-> c] : i \in {"c1", "i1"}, c \in Checks}

\* targets name an inference or a premise
CovContradictions ==
    {[id |-> "k1", targets |-> t] : t \in SeqsUpTo({"i1", "p1"}, MaxCovTargets)}

\* names of the claims of an artifact whose claims differ in nothing but
\* their name and whether the check was performed
ClaimNames == <<"n1", "n2", "n3", "n4", "n5", "n6", "n7", "n8", "n9", "n10", "n11", "n12">>

\* n inferences, the first k of them marked performed
UniformArtifact(n, k) ==
    [premises |-> <<>>,
     inferences |-> [j \in 1..n |->
                       [id |-> ClaimNames[j],
                        contradiction_check |->
                           [present |-> TRUE, exempt |-> FALSE, performed |-> j <= k]]],
     contradictions |-> <<>>,
     conclusions |-> <<>>]

\* no validator instance is involved in the coverage calculation
NoValidator ==
    /\ errors = <<>>
    /\ warnings = <<>>
    /\ calls = 0
    /\ ret = NotCalled

\* up to MaxCovClaims inferences and conclusions, with contradictions
InitCoverage ==
    /\ \E ni \in 0..MaxCovClaims :
         \E nc \in 0..(MaxCovClaims - ni) :
            \E i \in [1..ni -> CovInferences],
               c \in [1..nc -> CovConclusions],
               k \in SeqsUpTo(CovContradictions, MaxCovContradictions) :
               artifact = [premises |-> <<>>, inferences |-> i,
                           contradictions |-> k, conclusions |-> c]
    /\ NoValidator

\* up to MaxUniformClaims checkable claims, some of them checked
InitThreshold ==
    /\ \E n \in 1..MaxUniformClaims : \E k \in 0..n : artifact = UniformArtifact(n, k)
    /\ NoValidator

\* coverage, details = calculate_contradiction_coverage(artifact)
CalculateCoverage ==
    /\ ret = NotCalled
    /\ LET r == calculate_contradiction_coverage(artifact)
       IN  ret' = [op |-> "calculate_contradiction_coverage",
                   coverage |-> r.coverage, details |-> r.details]
    /\ UNCHANGED <<artifact, errors, warnings, calls>>

\* thresholds a caller passes, when it passes one
ThresholdInputs == {Ratio(0, 1), Ratio(1, 2), Ratio(90, 100), Ratio(1, 1)}

\* coverages a caller passes directly
CoverageInputs ==
    {Ratio(0, 1), Ratio(1, 2), Ratio(899999, 1000000), Ratio(9, 10),
     Ratio(900001, 1000000), Ratio(1, 1)}

\* passed = validate_threshold(coverage, threshold), on the coverage just
\* computed (as main does) or on a coverage passed directly
ValidateThreshold ==
    /\ \E given \in BOOLEAN, t \in ThresholdInputs :
          LET threshold == IF given THEN t ELSE DefaultThreshold
          IN  \/ /\ ret.op = "calculate_contradiction_coverage"
                 /\ ret' = [op |-> "validate_threshold", computed |-> TRUE,
                            coverage |-> ret.coverage, threshold |-> threshold,
                            given |-> given,
                            passed |-> validate_threshold(ret.coverage, threshold)]
              \/ /\ ret = NotCalled
                 /\ \E coverage \in CoverageInputs :
                       ret' = [op |-> "validate_threshold", computed |-> FALSE,
                               coverage |-> coverage, threshold |-> threshold,
                               given |-> given,
                               passed |-> validate_threshold(coverage, threshold)]
    /\ UNCHANGED <<artifact, errors, warnings, calls>>

NextCoverage == CalculateCoverage

SpecCoverage == InitCoverage /\ [][NextCoverage]_vars

NextThreshold ==
    \/ CalculateCoverage
    \/ ValidateThreshold

SpecThreshold == InitThreshold /\ [][NextThreshold]_vars

(* --------------------- contradiction coverage: properties -------------- *)

CoverageReturned == ret.op = "calculate_contradiction_coverage"

\* the inferences followed by the conclusions
ClaimsOf(a) == a.inferences \o a.conclusions

\* no two claims carry the same id
ClaimIdsUnique(a) ==
    \A i, j \in DOMAIN ClaimsOf(a) : ClaimsOf(a)[i].id = ClaimsOf(a)[j].id => i = j

\* positions of the claims whose contradiction_check.exempt is not true
CheckableClaims(a) == {i \in DOMAIN ClaimsOf(a) : ~ClaimsOf(a)[i].contradiction_check.exempt}

\* some contradiction has this id among its targets
Targeted(a, id) ==
    \E k \in DOMAIN a.contradictions : id \in Range(a.contradictions[k].targets)

\* positions of the checkable claims that are targeted or marked performed
CheckedClaims(a) ==
    {i \in CheckableClaims(a) :
        \/ Targeted(a, ClaimsOf(a)[i].id)
        \/ ClaimsOf(a)[i].contradiction_check.performed}

\* the ids of a set of claim positions
ClaimIds(a, S) == {ClaimsOf(a)[i].id : i \in S}

\* checked, as a set of ids: every target and every performed claim
C12_CheckedIds(a) ==
    {id \in ClaimIds(a, DOMAIN ClaimsOf(a)) \cup
            UNION {Range(a.contradictions[k].targets) : k \in DOMAIN a.contradictions} :
        \/ Targeted(a, id)
        \/ \E i \in DOMAIN ClaimsOf(a) :
              ClaimsOf(a)[i].id = id /\ ClaimsOf(a)[i].contradiction_check.performed}

\* coverage * |checkable| = |checked \cap checkable|, on sets of ids
C12_IsTheQuotient(a, coverage) ==
    LET checkable == ClaimIds(a, CheckableClaims(a))
    IN  IF checkable = {}
        THEN coverage.num = coverage.den
        ELSE /\ coverage.den # 0
             /\ coverage.num * Cardinality(checkable) =
                   Cardinality(C12_CheckedIds(a) \cap checkable) * coverage.den

\* 0 <= coverage <= 1
C12_InUnitInterval(coverage) ==
    /\ coverage.den > 0
    /\ 0 <= coverage.num
    /\ coverage.num <= coverage.den

\* C12 as stated: the quotient for every artifact, the interval for those
\* with unique ids
C12_AsStated ==
    CoverageReturned =>
        /\ C12_IsTheQuotient(artifact, ret.coverage)
        /\ ClaimIdsUnique(artifact) => C12_InUnitInterval(ret.coverage)

\* C12: for an artifact in which no two inferences or conclusions share an id,
\* the returned coverage is |checked \cap checkable| / |checkable| when some
\* claim is checkable and 1.0 when none is, and it lies in [0,1].
C12_CoverageIsTheQuotient ==
    (CoverageReturned /\ ClaimIdsUnique(artifact)) =>
        /\ C12_IsTheQuotient(artifact, ret.coverage)
        /\ C12_InUnitInterval(ret.coverage)

\* C12 witness: two checkable claims with different ids, one of them checked:
\* coverage one half
C12_Witness ==
    /\ CoverageReturned
    /\ ClaimIdsUnique(artifact)
    /\ Cardinality(CheckableClaims(artifact)) = 2
    /\ Cardinality(CheckedClaims(artifact)) = 1
    /\ ret.coverage.num * 2 = ret.coverage.den

\* the breakdown counts the claims as C13 classifies them
C13_Classified(a, details) ==
    /\ details.checkable_claims = Cardinality(CheckableClaims(a))
    /\ details.exempt_claims = Cardinality(DOMAIN ClaimsOf(a) \ CheckableClaims(a))
    /\ details.checked_claims = Cardinality(CheckedClaims(a))
    /\ details.unchecked_claims = Cardinality(CheckableClaims(a) \ CheckedClaims(a))
    /\ Range(details.unchecked_ids) = ClaimIds(a, CheckableClaims(a) \ CheckedClaims(a))
    /\ \A i \in DOMAIN ClaimsOf(a) :
          (/\ ~ClaimsOf(a)[i].contradiction_check.present
           /\ ~Targeted(a, ClaimsOf(a)[i].id))
          => ClaimsOf(a)[i].id \in Range(details.unchecked_ids)

\* C13 as stated: the classification for every artifact
C13_AsStated ==
    CoverageReturned => C13_Classified(artifact, ret.details)

\* C13: for an artifact in which no two inferences or conclusions share an id,
\* a claim is checkable iff its contradiction_check.exempt is not true, a
\* checkable claim counts as checked iff a contradiction targets its id or its
\* own contradiction_check.performed is true, a claim without
\* contradiction_check that no contradiction targets is listed in
\* unchecked_ids, and an exempt claim counts neither as checkable nor as
\* checked, targeted or performed though it may be.
C13_CheckableAndChecked ==
    (CoverageReturned /\ ClaimIdsUnique(artifact)) => C13_Classified(artifact, ret.details)

\* C13 witness: an exempt inference that is targeted and marked performed next
\* to a conclusion without contradiction_check: one checkable claim, unchecked
C13_Witness ==
    /\ CoverageReturned
    /\ ClaimIdsUnique(artifact)
    /\ Len(artifact.inferences) = 1 /\ Len(artifact.conclusions) = 1
    /\ artifact.inferences[1].contradiction_check.exempt
    /\ artifact.inferences[1].contradiction_check.performed
    /\ Targeted(artifact, artifact.inferences[1].id)
    /\ ~artifact.conclusions[1].contradiction_check.present
    /\ ret.details.checkable_claims = 1
    /\ ret.details.checked_claims = 0
    /\ ret.details.unchecked_ids = <<artifact.conclusions[1].id>>

ThresholdReturned == ret.op = "validate_threshold"

\* C14: validate_threshold returns true iff coverage >= threshold, the
\* threshold being 0.90 when none is passed; the coverage computed for an
\* artifact with 10 checkable claims of which 9 are checked is 0.9 and passes
\* the default threshold.
C14_PassesIffAtLeastThreshold ==
    ThresholdReturned =>
        /\ ~ret.given => (ret.threshold.num * 100 = 90 * ret.threshold.den)
        /\ ret.passed <=>
              ret.coverage.num * ret.threshold.den >= ret.threshold.num * ret.coverage.den
        /\ (/\ ret.computed
            /\ Cardinality(CheckableClaims(artifact)) = 10
            /\ Cardinality(CheckedClaims(artifact)) = 9)
           => /\ ret.coverage.num * 10 = 9 * ret.coverage.den
              /\ ~ret.given => ret.passed

\* C14 witness: 9 of 10 checkable claims checked, default threshold, passed
C14_Witness ==
    /\ ThresholdReturned
    /\ ret.computed /\ ~ret.given
    /\ Cardinality(CheckableClaims(artifact)) = 10
    /\ Cardinality(CheckedClaims(artifact)) = 9
    /\ ret.passed

\* C14 witness, just below: 0.899999 against the default threshold fails
C14_WitnessBelow ==
    /\ ThresholdReturned
    /\ ~ret.computed /\ ~ret.given
    /\ ret.coverage = Ratio(899999, 1000000)
    /\ ~ret.passed

(* --------------------- confidence gate: error handling ----------------- *)

\* the id is carried by no premise, inference or conclusion of the artifact
DanglingId(a, id) ==
    id \notin IdsOf(a.premises) \cup IdsOf(a.inferences) \cup IdsOf(a.conclusions)

\* the confidence is present and outside [0,1]
OutOfRange(e) == e.has_confidence /\ (e.confidence < 0 \/ e.confidence > 100)

\* C18: every violation of every inference is reported in the same run: an
\* inference whose confidence is outside [0,1] and one of whose supports is
\* the id of no entity gets the invalid-confidence error and the
\* unknown-support error.
C18_AllViolationsCollected ==
    ConfidenceReturned =>
        \A i \in DOMAIN artifact.inferences :
            LET inf == artifact.inferences[i]
            IN  \A s \in Range(inf.supports) :
                    (OutOfRange(inf) /\ DanglingId(artifact, s)) =>
                        /\ Names(ret.errors, "invalid", "Inference", inf.id, NoRef)
                        /\ Names(ret.errors, "unknown_support", "Inference", inf.id, s)

\* an entity of this kind without confidence, or with one outside [0,1], is
\* named by an error of the matching kind
C19_BadConfidenceReported(entities, entity) ==
    \A e \in DOMAIN entities :
        /\ ~entities[e].has_confidence =>
              Names(ret.errors, "missing", entity, entities[e].id, NoRef)
        /\ OutOfRange(entities[e]) =>
              Names(ret.errors, "invalid", entity, entities[e].id, NoRef)

\* some entity lacks a confidence or has one outside [0,1]
C19_SomeBadConfidence(a) ==
    \E e \in Range(a.premises) \cup Range(a.inferences) \cup Range(a.conclusions) :
        ~e.has_confidence \/ OutOfRange(e)

\* the support id s is resolved when inference i is reached: a premise with
\* this id has a confidence, or an earlier inference with this id got as far
\* as being stored
C19_Resolved(a, i, s) ==
    \/ \E p \in DOMAIN a.premises :
          a.premises[p].id = s /\ a.premises[p].has_confidence
    \/ \E j \in 1..(i - 1) :
          /\ a.inferences[j].id = s
          /\ a.inferences[j].has_confidence /\ ~OutOfRange(a.inferences[j])
          /\ a.inferences[j].supports # <<>>

\* the inference gets as far as resolving its supports
C19_ReachesResolution(inf) ==
    inf.has_confidence /\ ~OutOfRange(inf) /\ inf.supports # <<>>

\* the first half of C19: bad confidences are errors and fail the artifact
C19_BadConfidenceIsError ==
    /\ C19_BadConfidenceReported(artifact.premises, "Premise")
    /\ C19_BadConfidenceReported(artifact.inferences, "Inference")
    /\ C19_BadConfidenceReported(artifact.conclusions, "Conclusion")
    /\ C19_SomeBadConfidence(artifact) => ~ret.is_valid

MaxRepeats == 2

\* validator.validate_all() once more on the same instance: self.errors and
\* self.warnings still hold what the earlier calls appended
ValidateAllAgain ==
    /\ Returned("validate_all")
    /\ calls < MaxRepeats
    /\ calls' = calls + 1
    /\ LET r == validate_all(artifact, errors, warnings)
       IN  /\ errors' = r.errors
           /\ warnings' = r.warnings
           /\ ret' = [op |-> "validate_all", is_valid |-> r.is_valid,
                      errors |-> r.errors, warnings |-> r.warnings]
    /\ UNCHANGED artifact

NextRepeat ==
    \/ ValidateAll
    \/ ValidateAllAgain

SpecRepeat == InitStruct /\ [][NextRepeat]_vars

\* C16: the result of validate_all depends on the artifact alone: a further
\* call on the same instance returns the errors, the warnings and the verdict
\* of the call before it.
C16_RepeatedCallSameResult ==
    [][(Returned("validate_all") /\ ret'.op = "validate_all") =>
          /\ ret'.errors = ret.errors
          /\ ret'.warnings = ret.warnings
          /\ ret'.is_valid = ret.is_valid]_vars

(* ------------------ validate_lsa_schema.py ----------------------------- *)

\* One schema diagnostic: the path of the offending value (section, index in
\* the section, field) and the schema keyword it violates.
SchemaErr(section, index, field, rule) ==
    [path |-> <<section, index, field>>, rule |-> rule]

\* ids that match "^premise-[0-9]+$", "^inference-[0-9]+$",
\* "^contradiction-[0-9]+$" and "^conclusion-[0-9]+$"
PremiseIdPattern == {"premise-1", "premise-2"}

InferenceIdPattern == {"inference-1", "inference-2"}

ContradictionIdPattern == {"contradiction-1", "contradiction-2"}

ConclusionIdPattern == {"conclusion-1", "conclusion-2"}

\* "confidence": {"type": "number", "minimum": 0, "maximum": 1}, not required
ConfidenceErrors(section, index, entity) ==
    IF ~entity.has_confidence THEN <<>>
    ELSE IF entity.confidence < 0 THEN <<SchemaErr(section, index, "confidence", "minimum")>>
    ELSE IF entity.confidence > 100 THEN <<SchemaErr(section, index, "confidence", "maximum")>>
    ELSE <<>>

\* "id": {"type": "string", "pattern": ...}
IdErrors(section, index, entity, pattern) ==
    IF entity.id \in pattern THEN <<>>
    ELSE <<SchemaErr(section, index, "id", "pattern")>>

\* "minItems": 1
MinItemsErrors(section, index, field, list) ==
    IF Len(list) >= 1 THEN <<>>
    ELSE <<SchemaErr(section, index, field, "minItems")>>

\* the errors of one entity, in the order of their paths: confidence,
\* contested_by, id, supports, targets
SchemaEntityErrors(section, index, entity) ==
    IF section = "premises"
    THEN ConfidenceErrors(section, index, entity)
         \o IdErrors(section, index, entity, PremiseIdPattern)
    ELSE IF section = "inferences"
    THEN ConfidenceErrors(section, index, entity)
         \o IdErrors(section, index, entity, InferenceIdPattern)
         \o MinItemsErrors(section, index, "supports", entity.supports)
    ELSE IF section = "contradictions"
    THEN IdErrors(section, index, entity, ContradictionIdPattern)
         \o MinItemsErrors(section, index, "targets", entity.targets)
    ELSE ConfidenceErrors(section, index, entity)
         \o IdErrors(section, index, entity, ConclusionIdPattern)
         \o MinItemsErrors(section, index, "supports", entity.supports)

\* the errors of one section, entity after entity
RECURSIVE SchemaSectionErrors(_, _, _)
SchemaSectionErrors(section, entities, index) ==
    IF index > Len(entities) THEN <<>>
    ELSE SchemaEntityErrors(section, index, entities[index])
         \o SchemaSectionErrors(section, entities, index + 1)

\* validate_lsa_schema(lsa_artifact) -> (is_valid, errors): the errors of
\* Draft7Validator(LSA_SCHEMA).iter_errors sorted by path, that is section by
\* section in alphabetical order.  The fields every entity of the inputs
\* carries in conforming form (statement, methodology, label, audit, ...) give
\* no error.
validate_lsa_schema(a) ==
    LET errs == SchemaSectionErrors("conclusions", a.conclusions, 1)
                \o SchemaSectionErrors("contradictions", a.contradictions, 1)
                \o SchemaSectionErrors("inferences", a.inferences, 1)
                \o SchemaSectionErrors("premises", a.premises, 1)
    IN  [is_valid |-> Len(errs) = 0, errors |-> errs]

(* --------------------- the four components in sequence ----------------- *)

MaxPipePremises == 2
MaxPipeOthers == 1
MaxPipeLinks == 1
MaxRuns == 2

\* premises: a conforming id or a non-conforming one, confidence in or out
\* of range
PipePremises ==
    {[id |-> "premise-1", has_confidence |-> TRUE, confidence |-> c] : c \in {70, 120}}
    \cup {[id |-> "x", has_confidence |-> TRUE, confidence |-> 70]}

\* inferences: the id may be that of a premise
PipeInferences ==
    {[id |-> i, has_confidence |-> TRUE, confidence |-> c, supports |-> s,
      contradiction_check |-> NoCheck] :
        i \in {"inference-1", "premise-1"}, c \in {75},
        s \in SeqsUpTo({"premise-1", "ghost"}, MaxPipeLinks)}

PipeContradictions ==
    {[id |-> "contradiction-1", targets |-> t] :
        t \in SeqsUpTo({"conclusion-1"}, MaxPipeLinks)}

PipeConclusions ==
    {[id |-> "conclusion-1", has_confidence |-> c.has, confidence |-> c.value,
      supports |-> s, contested_by |-> k, contradiction_check |-> x] :
        c \in {[has |-> TRUE, value |-> v] : v \in {79, 85}},
        s \in SeqsUpTo({"inference-1"}, MaxPipeLinks),
        k \in SeqsUpTo({"contradiction-1"}, MaxPipeLinks),
        x \in {NoCheck, [present |-> TRUE, exempt |-> TRUE, performed |-> TRUE]}}

InitPipeline ==
    /\ \E p \in SeqsUpTo(PipePremises, MaxPipePremises),
          i \in SeqsUpTo(PipeInferences, MaxPipeOthers),
          k \in SeqsUpTo(PipeContradictions, MaxPipeOthers),
          c \in SeqsUpTo(PipeConclusions, MaxPipeOthers) :
          artifact = [premises |-> p, inferences |-> i,
                      contradictions |-> k, conclusions |-> c]
    /\ InitValidator

\* is_valid, errors = validate_lsa_schema(artifact)
ValidateSchema ==
    /\ ret = NotCalled
    /\ LET r == validate_lsa_schema(artifact)
       IN  ret' = [op |-> "validate_lsa_schema", is_valid |-> r.is_valid,
                   errors |-> r.errors]
    /\ UNCHANGED <<artifact, errors, warnings, calls>>

\* faulty variant: the lists of the previous instance are kept
NewValidator_Reused(errs, warns) == [errors |-> errs, warnings |-> warns]

\* validator = LSAValidator(artifact) when the lists of the previous instance
\* hold errs and warns: the new instance starts with empty lists
NewValidator(errs, warns) == [errors |-> <<>>, warnings |-> <<>>]

\* faulty variant: the default is stored in the claim (setdefault)
GetContradictionCheck_SetDefault(claim) ==
    [value |-> claim.contradiction_check,
     claim |-> [claim EXCEPT !.contradiction_check.present = TRUE]]

\* claim.get("contradiction_check", {}): the value read and the claim as the
\* call leaves it
GetContradictionCheck(claim) ==
    [value |-> claim.contradiction_check, claim |-> claim]

\* the artifact as the four components leave it: the only dict lookups with a
\* default that is a fresh container are those of the coverage calculation
ArtifactAfter(a) ==
    [a EXCEPT
       !.inferences = [j \in DOMAIN a.inferences |-> GetContradictionCheck(a.inferences[j]).claim],
       !.conclusions = [j \in DOMAIN a.conclusions |-> GetContradictionCheck(a.conclusions[j]).claim]]

\* schema, structure (fresh instance, as validate_lsa_file builds it),
\* confidence and coverage on the same artifact, at most MaxRuns times
RunPipeline ==
    /\ \/ ret = NotCalled
       \/ ret.op = "pipeline" /\ ret.run < MaxRuns
    /\ LET validator == NewValidator(errors, warnings)
           structure == validate_all(artifact, validator.errors, validator.warnings)
           coverage == calculate_contradiction_coverage(artifact)
       IN  /\ errors' = structure.errors
           /\ warnings' = structure.warnings
           /\ ret' = [op |-> "pipeline",
                      run |-> IF ret = NotCalled THEN 1 ELSE ret.run + 1,
                      schema |-> validate_lsa_schema(artifact),
                      structure |-> structure,
                      confidence |-> validate_confidence_propagation(artifact),
                      coverage |-> coverage.coverage,
                      details |-> coverage.details]
    /\ calls' = 1
    /\ artifact' = ArtifactAfter(artifact)

NextPipeline ==
    \/ ValidateSchema
    \/ ValidateAll
    \/ ValidateConfidence
    \/ CalculateCoverage
    \/ RunPipeline

SpecPipeline == InitPipeline /\ [][NextPipeline]_vars

(* --------------------- the four components: properties ----------------- *)

PipelineReturned == ret.op = "pipeline"

C17_WitnessValid ==
    /\ PipelineReturned
    /\ ret.schema.is_valid /\ ret.structure.is_valid /\ ret.confidence.is_valid
    /\ artifact.inferences # <<>> /\ artifact.conclusions # <<>>

\* the ids of all entities, one entry per entity
AllEntityIds(a) ==
    [i \in DOMAIN a.premises |-> a.premises[i].id]
    \o [i \in DOMAIN a.inferences |-> a.inferences[i].id]
    \o [i \in DOMAIN a.contradictions |-> a.contradictions[i].id]
    \o [i \in DOMAIN a.conclusions |-> a.conclusions[i].id]

\* two entities carry the same id
HasDuplicateId(a) ==
    \E i, j \in DOMAIN AllEntityIds(a) : i # j /\ AllEntityIds(a)[i] = AllEntityIds(a)[j]

\* C20: an artifact in which two entities carry the same id is rejected by
\* the schema, the structure or the confidence gate.
C20_DuplicateIdRejected ==
    (PipelineReturned /\ HasDuplicateId(artifact)) =>
        \/ ~ret.schema.is_valid
        \/ ~ret.structure.is_valid
        \/ ~ret.confidence.is_valid

\* ---------------------------------------------------------------------------
\* validate_lsa_schema.py: LSA_SCHEMA on the keys of a document
\* ---------------------------------------------------------------------------
\* A document is described by the keys each of its objects carries: the root
\* object, audit, and one premise, inference, contradiction and conclusion
\* (the entity at position 1 of its list).  Beside the keys it records the
\* premise's byte_range "start-end", the lengths of the lists under minItems,
\* and the keys of each contradiction_check object.  Every value not recorded
\* here conforms to its type, pattern, enum and length.

\* the objects of a document, in the order of their error paths
SchemaLocations == <<"root", "audit", "conclusions", "contradictions", "inferences", "premises">>

\* the entities whose schema declares a contradiction_check object
CheckSections == {"conclusions", "inferences", "premises"}

\* "required": [...] of each object, in the order of the schema
RequiredFields(location) ==
    CASE location = "root" ->
            <<"premises", "inferences", "contradictions", "conclusions", "audit">>
      [] location = "premises" -> <<"id", "statement", "source_sha256", "byte_range">>
      [] location = "inferences" -> <<"id", "supports", "methodology", "statement">>
      [] location = "contradictions" -> <<"id", "targets", "statement", "label">>
      [] location = "conclusions" ->
            <<"id", "supports", "contested_by", "statement", "decision_state">>
      [] location = "audit" -> <<"author", "timestamp", "hash", "signing_key">>

\* the keys of "properties" of each object
DeclaredProperties(location) ==
    CASE location = "root" -> {"premises", "inferences", "contradictions", "conclusions", "audit"}
      [] location = "premises" ->
            {"id", "statement", "source_sha256", "byte_range", "confidence",
             "source_type", "contradiction_check"}
      [] location = "inferences" ->
            {"id", "supports", "methodology", "confidence", "statement",
             "contradiction_check"}
      [] location = "contradictions" ->
            {"id", "targets", "statement", "label", "source_sha256", "byte_range",
             "confidence"}
      [] location = "conclusions" ->
            {"id", "supports", "contested_by", "statement", "decision_state",
             "confidence", "contradiction_check"}
      [] location = "audit" -> {"author", "timestamp", "hash", "signing_key"}

\* the objects whose schema says "additionalProperties": False: the root,
\* the four entities and audit; the contradiction_check objects do not
ClosedObjects == {"root", "audit", "conclusions", "contradictions", "inferences", "premises"}

\* the keys "properties" declares for a contradiction_check object
DeclaredCheckProperties(section) ==
    CASE section = "premises" -> {"performed", "exempt", "exempt_reason"}
      [] section = "inferences" ->
            {"performed", "timestamp", "search_queries", "sources_searched",
             "contradictions_found", "exempt", "exempt_reason"}
      [] section = "conclusions" ->
            {"performed", "timestamp", "search_queries", "sources_searched",
             "contradictions_found", "methodology", "exempt", "exempt_reason"}

\* an error raised on an object: path is the object's path, name the key the
\* message quotes
ObjectErr(path, rule, name) == [path |-> path, rule |-> rule, name |-> name]

\* error.path of the object at a location
PathOf(location) ==
    IF location = "root" THEN <<>>
    ELSE IF location = "audit" THEN <<"audit">>
    ELSE <<location, 1>>

\* faulty variant: an object that lacks a required key is reported once for
\* every key of its required list
RequiredErrors_WholeList(location, keys) ==
    IF \A i \in DOMAIN RequiredFields(location) : RequiredFields(location)[i] \in keys
    THEN <<>>
    ELSE [i \in DOMAIN RequiredFields(location) |->
             ObjectErr(PathOf(location), "required", RequiredFields(location)[i])]

\* "required": one error for each required key the object lacks
RequiredErrors(location, keys) ==
    LET missing == SelectSeq(RequiredFields(location), LAMBDA f : f \notin keys)
    IN  [i \in DOMAIN missing |-> ObjectErr(PathOf(location), "required", missing[i])]

\* "additionalProperties": False: one error for an object that carries
\* undeclared keys (the document model adds at most the key "extra")
AdditionalPropertiesErrors(location, keys) ==
    IF location \in ClosedObjects /\ keys \ DeclaredProperties(location) # {}
    THEN <<ObjectErr(PathOf(location), "additionalProperties",
                     CHOOSE k \in keys \ DeclaredProperties(location) : TRUE)>>
    ELSE <<>>

\* the text of a byte_range: a number, a separator, a number
ByteRangeText(byte_range) == <<byte_range.start, byte_range.separator, byte_range.end>>

\* "pattern": "^[0-9]+-[0-9]+$": digits, a dash, digits
MatchesByteRangePattern(text) ==
    /\ Len(text) = 3
    /\ text[1] \in Nat /\ text[2] = "-" /\ text[3] \in Nat

\* the errors below one entity, in the order of their paths: byte_range,
\* contradiction_check, supports, targets
FieldErrors(d, location) ==
    LET keys == d.keys[location]
    IN  (IF location = "premises" /\ "byte_range" \in keys
            /\ ~MatchesByteRangePattern(ByteRangeText(d.byte_range))
         THEN <<SchemaErr(location, 1, "byte_range", "pattern")>> ELSE <<>>)
        \o (IF location \in {"inferences", "conclusions"} /\ "supports" \in keys
            THEN MinItemsErrors(location, 1, "supports", d.supports[location])
            ELSE <<>>)
        \o (IF location = "contradictions" /\ "targets" \in keys
            THEN MinItemsErrors(location, 1, "targets", d.targets)
            ELSE <<>>)

\* the errors of one object and of what it contains; an object under a key
\* the root lacks is not there to be validated
LocationErrors(d, location) ==
    IF location # "root" /\ location \notin d.keys["root"] THEN <<>>
    ELSE RequiredErrors(location, d.keys[location])
         \o AdditionalPropertiesErrors(location, d.keys[location])
         \o FieldErrors(d, location)

\* validate_lsa_schema(lsa_artifact) on a document: the errors of
\* Draft7Validator(LSA_SCHEMA).iter_errors sorted by path
validate_lsa_schema_document(d) ==
    LET errs == LocationErrors(d, "root")
                \o LocationErrors(d, "audit")
                \o LocationErrors(d, "conclusions")
                \o LocationErrors(d, "contradictions")
                \o LocationErrors(d, "inferences")
                \o LocationErrors(d, "premises")
    IN  [is_valid |-> Len(errs) = 0, errors |-> errs]

\* ---------------------------------------------------------------------------
\* State machine: validate_lsa_schema on documents near a valid one
\* ---------------------------------------------------------------------------
\* how many edits separate a document from the valid one
MaxEdits == 2

\* a document every object of which carries its required keys, a confidence
\* and a contradiction_check where the schema declares them, and no other key
ValidDocument ==
    [keys |-> [l \in Range(SchemaLocations) |->
                  Range(RequiredFields(l))
                  \cup (IF l \in CheckSections
                        THEN {"confidence", "contradiction_check"} ELSE {})],
     check_keys |-> [s \in CheckSections |-> {"performed"}],
     byte_range |-> [start |-> 100, separator |-> "-", end |-> 500],
     supports |-> [s \in {"inferences", "conclusions"} |-> <<"x">>],
     targets |-> <<"x">>]

\* the offsets and separators byte ranges are written with
ByteOffsets == {100, 500}

ByteSeparators == {"-", ":"}

\* one edit of a document; every edit has the same fields
Edit(op, at, field, byte_range) ==
    [op |-> op, at |-> at, field |-> field, byte_range |-> byte_range]

\* remove a key, add an undeclared key to an object or to a
\* contradiction_check, rewrite the byte_range, empty a list
Edits ==
    UNION {{Edit("remove", l, f, ValidDocument.byte_range) : f \in DeclaredProperties(l)} :
              l \in Range(SchemaLocations)}
    \cup {Edit("add", l, "extra", ValidDocument.byte_range) : l \in Range(SchemaLocations)}
    \cup {Edit("add_check", s, "extra", ValidDocument.byte_range) : s \in CheckSections}
    \cup {Edit("byte_range", "premises", "byte_range",
               [start |-> s, separator |-> p, end |-> e]) :
             s \in ByteOffsets, p \in ByteSeparators, e \in ByteOffsets}
    \cup {Edit("empty", l, "supports", ValidDocument.byte_range) :
             l \in {"inferences", "conclusions"}}
    \cup {Edit("empty", "contradictions", "targets", ValidDocument.byte_range)}

ApplyEdit(d, e) ==
    CASE e.op = "remove" -> [d EXCEPT !.keys[e.at] = @ \ {e.field}]
      [] e.op = "add" -> [d EXCEPT !.keys[e.at] = @ \cup {e.field}]
      [] e.op = "add_check" -> [d EXCEPT !.check_keys[e.at] = @ \cup {e.field}]
      [] e.op = "byte_range" -> [d EXCEPT !.byte_range = e.byte_range]
      [] e.op = "empty" ->
            IF e.field = "targets" THEN [d EXCEPT !.targets = <<>>]
            ELSE [d EXCEPT !.supports[e.at] = <<>>]

RECURSIVE ApplyEdits(_, _)
ApplyEdits(d, es) ==
    IF es = <<>> THEN d ELSE ApplyEdits(ApplyEdit(d, Head(es)), Tail(es))

\* the valid document after up to MaxEdits edits
InitSchema ==
    /\ \E n \in 0..MaxEdits :
         \E es \in [1..n -> Edits] : artifact = ApplyEdits(ValidDocument, es)
    /\ NoValidator

\* is_valid, errors = validate_lsa_schema(artifact)
ValidateSchemaDocument ==
    /\ ret = NotCalled
    /\ ret' = [op |-> "validate_lsa_schema"] @@ validate_lsa_schema_document(artifact)
    /\ UNCHANGED <<artifact, errors, warnings, calls>>

NextSchema == ValidateSchemaDocument

SpecSchema == InitSchema /\ [][NextSchema]_vars

\* ---------------------------------------------------------------------------
\* Properties of the schema gate
\* ---------------------------------------------------------------------------
SchemaReturned == ret.op = "validate_lsa_schema"

\* a document that conforms in every recorded respect: each object carries
\* its required keys and declared keys only, contradiction_check objects
\* included; the byte_range reads start-end with start <= end; no list is empty
Conforms(d) ==
    /\ \A l \in Range(SchemaLocations) :
          /\ Range(RequiredFields(l)) \subseteq d.keys[l]
          /\ d.keys[l] \subseteq DeclaredProperties(l)
    /\ \A s \in CheckSections : d.check_keys[s] \subseteq DeclaredCheckProperties(s)
    /\ d.byte_range.separator = "-" /\ d.byte_range.start <= d.byte_range.end
    /\ \A s \in DOMAIN d.supports : d.supports[s] # <<>>
    /\ d.targets # <<>>

\* C21: an otherwise valid artifact whose conclusion has supports = []
\* produces no schema error.
C21_EmptyConclusionSupportsAccepted ==
    (/\ SchemaReturned
     /\ artifact.supports["conclusions"] = <<>>
     /\ Conforms([artifact EXCEPT !.supports["conclusions"] = <<"x">>]))
    => ret.errors = <<>>

\* C22: a premise whose byte_range is "start-end" with start > end, in an
\* otherwise valid artifact, produces a schema error.
C22_ReversedByteRangeRejected ==
    (/\ SchemaReturned
     /\ artifact.byte_range.separator = "-"
     /\ artifact.byte_range.start > artifact.byte_range.end
     /\ Conforms([artifact EXCEPT !.byte_range = ValidDocument.byte_range]))
    => ret.errors # <<>>

\* the document without its undeclared keys
WithoutExtraKeys(d) ==
    [d EXCEPT !.keys = [l \in DOMAIN d.keys |-> d.keys[l] \ {"extra"}],
              !.check_keys = [s \in DOMAIN d.check_keys |-> d.check_keys[s] \ {"extra"}]]

\* the number of objects that carry the undeclared key
ExtraKeyCount(d) ==
    Cardinality({l \in DOMAIN d.keys : "extra" \in d.keys[l]})
    + Cardinality({s \in DOMAIN d.check_keys : "extra" \in d.check_keys[s]})

\* C23: an artifact that is valid except for one undeclared key produces a
\* schema error wherever the key is: in the root, an entity, audit, or a
\* contradiction_check object.
C23_UnknownFieldRejectedAnywhere ==
    (/\ SchemaReturned
     /\ ExtraKeyCount(artifact) = 1
     /\ Conforms(WithoutExtraKeys(artifact)))
    => ret.errors # <<>>

\* the document with a key put back
WithKey(d, location, field) == [d EXCEPT !.keys[location] = @ \cup {field}]

\* the artifact is a conforming document with one required key removed
C24_Removed(location, i) ==
    /\ RequiredFields(location)[i] \notin artifact.keys[location]
    /\ Conforms(WithKey(artifact, location, RequiredFields(location)[i]))

UsageErrors == {"no_argument", "file_not_found", "invalid_json"}

\* C25: the command line exits with 0 when validation succeeds, with 1 when
\* a hard error is found, and with 2 on a usage error (missing argument,
\* missing or unreadable file, invalid JSON).
C25_ExitCodeByOutcome ==
    Returned("main") =>
        ret.exit_code = (IF ret.invocation \in UsageErrors THEN 2
                         ELSE IF ret.errors = <<>> THEN 0 ELSE 1)

\* ---------------------------------------------------------------------------
\* calculate_contradiction_coverage.py: main
\* ---------------------------------------------------------------------------
\* how many arguments follow the program name
MaxArgs == 3

\* the claims of the artifact a file argument holds
FileClaims == 10

\* a command-line argument: the path of a .json file (which may not exist,
\* or may not hold JSON), or a decimal number
FileArg(exists, json, checked) ==
    [kind |-> "file", exists |-> exists, json |-> json,
     artifact |-> UniformArtifact(FileClaims, checked), value |-> Ratio(0, 1)]

NumberArg(value) ==
    [kind |-> "number", exists |-> FALSE, json |-> FALSE,
     artifact |-> UniformArtifact(0, 0), value |-> value]

\* files with coverage 0.8, 0.9 and 1.0, a file that is not JSON, a path
\* that does not exist, and the numbers 0.85 and 0.95
Args ==
    {FileArg(TRUE, TRUE, k) : k \in {8, 9, 10}}
    \cup {FileArg(TRUE, FALSE, 0), FileArg(FALSE, FALSE, 0)}
    \cup {NumberArg(Ratio(85, 100)), NumberArg(Ratio(95, 100))}

\* float(sys.argv[2]) succeeds on a number and raises ValueError on a path
ParsesAsFloat(arg) == arg.kind = "number"

\* arg.replace('.', '', 1).isdigit()
LooksLikeNumber(arg) == arg.kind = "number"

\* the loop over sys.argv[1:]: numbers are skipped, existing .json paths kept
FilePaths(argv) ==
    SelectSeq(argv, LAMBDA arg : ~LooksLikeNumber(arg) /\ arg.exists)

\* one turn of the loop over filepaths: the report of a file, or the
\* JSONDecodeError
ProcessFile(file, threshold) ==
    IF ~file.json THEN [processed |-> FALSE, coverage |-> Ratio(0, 1), passed |-> FALSE]
    ELSE LET r == calculate_contradiction_coverage(file.artifact)
         IN  [processed |-> TRUE, coverage |-> r.coverage,
              passed |-> validate_threshold(r.coverage, threshold)]

\* main(): the exit code and the reports printed
coverage_main(argv) ==
    IF Len(argv) < 1 THEN [exit_code |-> 1, outcome |-> "usage", reports |-> <<>>]
    ELSE IF Len(argv) > 1 /\ ~ParsesAsFloat(argv[2])
    THEN [exit_code |-> 1, outcome |-> "invalid_threshold", reports |-> <<>>]
    ELSE LET threshold == IF Len(argv) > 1 THEN argv[2].value ELSE DefaultThreshold
             filepaths == FilePaths(argv)
             reports == [i \in DOMAIN filepaths |-> ProcessFile(filepaths[i], threshold)]
             all_passed == \A i \in DOMAIN reports : reports[i].passed
         IN  IF filepaths = <<>>
             THEN [exit_code |-> 1, outcome |-> "no_files", reports |-> <<>>]
             ELSE [exit_code |-> IF all_passed THEN 0 ELSE 1,
                   outcome |-> IF all_passed THEN "all_passed" ELSE "some_failed",
                   reports |-> reports]

\* the arguments of one invocation
InitCoverageCli ==
    /\ \E n \in 0..MaxArgs : \E argv \in [1..n -> Args] : artifact = [argv |-> argv]
    /\ NoValidator

CoverageMain ==
    /\ ret = NotCalled
    /\ ret' = [op |-> "coverage_main"] @@ coverage_main(artifact.argv)
    /\ UNCHANGED <<artifact, errors, warnings, calls>>

NextCoverageCli == CoverageMain

SpecCoverageCli == InitCoverageCli /\ [][NextCoverageCli]_vars

\* the file arguments and the number arguments of an invocation
FileArgs(argv) == SelectSeq(argv, LAMBDA arg : arg.kind = "file")

NumberArgs(argv) == SelectSeq(argv, LAMBDA arg : arg.kind = "number")

\* the threshold an invocation asks for
RequestedThreshold(argv) ==
    IF NumberArgs(argv) = <<>> THEN DefaultThreshold ELSE NumberArgs(argv)[1].value

\* a file is valid JSON and its coverage is at least the threshold
MeetsThreshold(file, threshold) ==
    /\ file.json
    /\ Geq(calculate_contradiction_coverage(file.artifact).coverage, threshold)

\* C26: called with two or more existing .json paths, with or without a
\* threshold argument, the coverage CLI reports on every listed file and
\* exits 0 if and only if every listed file meets the threshold (default
\* 0.90).
C26_MultiFileExitCode ==
    LET argv == artifact.argv
        files == FileArgs(argv)
    IN  (/\ ret.op = "coverage_main"
         /\ Len(files) >= 2
         /\ \A i \in DOMAIN files : files[i].exists
         /\ Len(NumberArgs(argv)) <= 1)
        => /\ Len(ret.reports) = Len(files)
           /\ ret.exit_code = 0 <=>
                 \A i \in DOMAIN files : MeetsThreshold(files[i], RequestedThreshold(argv))

\* ---------------------------------------------------------------------------
\* verify_hashes.py
\* ---------------------------------------------------------------------------
\* A path is the sequence of its directories, its file name and the suffix
\* of the name.
FilePath(dirs, name, suffix) == [dirs |-> dirs, name |-> name, suffix |-> suffix]

EXCLUDED_FILES == {FilePath(<<>>, ".gitignore", ""), FilePath(<<>>, ".gitattributes", "")}

\* the entries of ALLOWLIST_DIRS that end with "/"
ALLOWLIST_DIRS ==
    {<<"lsa", "spec">>, <<"rag", "spec">>, <<"docs">>, <<"legal">>,
     <<"infra", "github">>, <<".github">>, <<"tests">>}

\* the entries of ALLOWLIST_DIRS that name a file
ALLOWLIST_FILES ==
    {FilePath(<<>>, "README.md", ".md"), FilePath(<<>>, "CONTRIBUTING.md", ".md"),
     FilePath(<<>>, "SECURITY.md", ".md")}

ALLOWLIST_EXT == {".md", ".json", ".yml", ".yaml", ".py", ".txt", ".mermaid", ".svg"}

\* p.startswith(d) for a directory entry d
StartsWith(dirs, d) == Len(d) <= Len(dirs) /\ SubSeq(dirs, 1, Len(d)) = d

\* is_allowed(path), for the path of a file
is_allowed(path) ==
    IF path \in EXCLUDED_FILES THEN FALSE
    ELSE IF path \in ALLOWLIST_FILES THEN TRUE
    ELSE IF \E d \in ALLOWLIST_DIRS : StartsWith(path.dirs, d)
    THEN path.suffix \in ALLOWLIST_EXT
    ELSE FALSE

LedgerFile == FilePath(<<"infra", "github">>, "hash_ledger.json", ".json")

\* discover_tracked_files(): the files under the working directory that are
\* the ledger or are allowed
discover_tracked_files(files) ==
    {path \in DOMAIN files : path = LedgerFile \/ is_allowed(path)}

\* compute_hash(path): SHA-256 of the content, taken to be free of
\* collisions on the contents considered; a hash is a sequence, as a string is
compute_hash(content) == <<"sha256", content>>

\* the empty string
EmptyHash == <<>>

\* faulty variant: stale ledger entries are not looked for
ExtraInLedger_Ignored(ledger_keys, expected) == {}

\* extra_in_ledger
ExtraInLedger(ledger_keys, expected) == ledger_keys \ expected

\* verify(ledger) in a working directory holding files: SystemExit(1) or a
\* normal return, and the four lists it prints
verify(ledger, files) ==
    LET expected == discover_tracked_files(files)
        ledger_keys == DOMAIN ledger
        missing_in_ledger == expected \ ledger_keys
        extra_in_ledger == ExtraInLedger(ledger_keys, expected)
        compared == (expected \cap ledger_keys) \ EXCLUDED_FILES
        present_missing == {p \in compared : p \notin DOMAIN files}
        mismatched == {p \in compared \ present_missing :
                          ledger[p] # EmptyHash /\ compute_hash(files[p]) # ledger[p]}
        failed == \/ missing_in_ledger # {} \/ extra_in_ledger # {}
                  \/ present_missing # {} \/ mismatched # {}
    IN  [exits |-> failed, exit_code |-> IF failed THEN 1 ELSE 0,
         missing_in_ledger |-> missing_in_ledger, extra_in_ledger |-> extra_in_ledger,
         present_missing |-> present_missing, mismatched |-> mismatched]

\* ---------------------------------------------------------------------------
\* State machine: verify on a working directory and a ledger
\* ---------------------------------------------------------------------------
MaxFiles == 3
MaxLedgerEntries == 3

\* the paths considered: allowed by directory and suffix, allowed by name,
\* in an allowed directory with another suffix, outside the allowlist, the
\* ledger itself
Paths ==
    {FilePath(<<"docs">>, "OK.md", ".md"),
     FilePath(<<>>, "README.md", ".md"),
     FilePath(<<"docs">>, "logo.png", ".png"),
     FilePath(<<"private">>, "runtime.py", ".py"),
     LedgerFile}

Contents == {"hello", "x"}

\* what a ledger entry holds: a hash, or the empty string
LedgerValues == {compute_hash(c) : c \in Contents} \cup {EmptyHash}

\* the functions from a subset of at most n paths into a set of values
MapsUpTo(n, values) ==
    UNION {[S -> values] : S \in {T \in SUBSET Paths : Cardinality(T) <= n}}

InitLedger ==
    /\ \E files \in MapsUpTo(MaxFiles, Contents) :
         \E ledger \in MapsUpTo(MaxLedgerEntries, LedgerValues) :
            artifact = [files |-> files, ledger |-> ledger]
    /\ NoValidator

Verify ==
    /\ ret = NotCalled
    /\ ret' = [op |-> "verify"] @@ verify(artifact.ledger, artifact.files)
    /\ UNCHANGED <<artifact, errors, warnings, calls>>

NextLedger == Verify

SpecLedger == InitLedger /\ [][NextLedger]_vars

\* C27: verify(ledger) exits with code 1 whenever the ledger keys differ
\* from the discovered allowlisted files, and returns without exiting when
\* the two sets are equal and every ledger hash is the SHA-256 of its file.
C27_ExitsIffLedgerDiffers ==
    ret.op = "verify" =>
        LET expected == discover_tracked_files(artifact.files)
            ledger == artifact.ledger
        IN  /\ DOMAIN ledger # expected => ret.exits /\ ret.exit_code = 1
            /\ (/\ DOMAIN ledger = expected
                /\ \A p \in DOMAIN ledger : ledger[p] = compute_hash(artifact.files[p]))
               => ~ret.exits

\* C27 witness: a ledger entry for a file outside the allowlist, beside a
\* covered file with the right hash, has made verify exit
C27_Witness ==
    /\ ret.op = "verify"
    /\ ret.exits
    /\ ret.extra_in_ledger = {FilePath(<<"private">>, "runtime.py", ".py")}
    /\ ret.missing_in_ledger = {} /\ ret.mismatched = {}
    /\ FilePath(<<"docs">>, "OK.md", ".md") \in DOMAIN artifact.files

\* a covered ledger with matching hashes has let verify return
C27_WitnessPass ==
    /\ ret.op = "verify"
    /\ ~ret.exits
    /\ DOMAIN artifact.ledger # {}
    /\ \A p \in DOMAIN artifact.ledger :
          artifact.ledger[p] = compute_hash(artifact.files[p])

\* ---------------------------------------------------------------------------
\* lsa/spec/examples/validate_inference.py
\* ---------------------------------------------------------------------------
\* An inference of these inputs carries supports (a list of non-empty
\* strings), a numeric confidence, and a methodology and a statement that
\* conform; its id may be absent.  A premise carries an id or none.

\* faulty variant: references are not compared with the known ids
InvalidRefs_Unchecked(supports, valid_ids) == <<>>

\* invalid_refs = [ref_id for ref_id in supports if ref_id not in valid_ids]
InvalidRefs(supports, valid_ids) == SelectSeq(supports, LAMBDA ref_id : ref_id \notin valid_ids)

\* validate_inference(inference, valid_ids) -> (is_valid, error_message): the
\* first failing check
validate_inference(inference, valid_ids) ==
    IF ~inference.has_id THEN [is_valid |-> FALSE, error |-> "missing_fields"]
    ELSE IF Len(inference.supports) = 0 THEN [is_valid |-> FALSE, error |-> "no_supports"]
    ELSE IF InvalidRefs(inference.supports, valid_ids) # <<>>
    THEN [is_valid |-> FALSE, error |-> "unknown_ids"]
    ELSE IF ~(0 <= inference.confidence /\ inference.confidence <= 100)
    THEN [is_valid |-> FALSE, error |-> "confidence_range"]
    ELSE [is_valid |-> TRUE, error |-> ""]

\* an error of check_inference_chain_integrity, with the index it is about
ChainErr(kind, idx) == [kind |-> kind, index |-> idx]

\* the loop over enumerate(inferences)
RECURSIVE ChainLoop(_, _, _, _)
ChainLoop(inferences, idx, valid_ids, errs) ==
    IF idx > Len(inferences) THEN [valid_ids |-> valid_ids, errors |-> errs]
    ELSE LET inference == inferences[idx]
         IN  IF ~inference.has_id
             THEN ChainLoop(inferences, idx + 1, valid_ids,
                            Append(errs, ChainErr("missing_id", idx)))
             ELSE IF inference.id \in valid_ids
             THEN ChainLoop(inferences, idx + 1, valid_ids,
                            Append(errs, ChainErr("duplicate_id", idx)))
             ELSE IF ~validate_inference(inference, valid_ids).is_valid
             THEN ChainLoop(inferences, idx + 1, valid_ids,
                            Append(errs, ChainErr(validate_inference(inference, valid_ids).error,
                                                  idx)))
             ELSE ChainLoop(inferences, idx + 1, valid_ids \cup {inference.id}, errs)

\* check_inference_chain_integrity(premises, inferences) -> (is_valid,
\* errors), with the set valid_ids the loop ends with
check_inference_chain_integrity(premises, inferences) ==
    LET seeded == {premises[i].id : i \in {j \in DOMAIN premises : premises[j].has_id}}
        r == ChainLoop(inferences, 1, seeded, <<>>)
    IN  [is_valid |-> Len(r.errors) = 0, errors |-> r.errors, valid_ids |-> r.valid_ids]

\* ---------------------------------------------------------------------------
\* State machine: check_inference_chain_integrity
\* ---------------------------------------------------------------------------
MaxChainPremises == 2
MaxChainInferences == 2
MaxChainSupports == 2

ChainPremises == {[has_id |-> h, id |-> "p1"] : h \in BOOLEAN}

ChainInferences ==
    {[has_id |-> TRUE, id |-> id, supports |-> s, confidence |-> c] :
        id \in {"i1", "i2", "p1"},
        s \in SeqsUpTo({"p1", "i1", "i2"}, MaxChainSupports), c \in {80, 120}}
    \cup {[has_id |-> FALSE, id |-> "", supports |-> <<"p1">>, confidence |-> 80]}

InitChain ==
    /\ \E np \in 0..MaxChainPremises, ni \in 0..MaxChainInferences :
         \E p \in [1..np -> ChainPremises], i \in [1..ni -> ChainInferences] :
            artifact = [premises |-> p, inferences |-> i]
    /\ NoValidator

CheckInferenceChainIntegrity ==
    /\ ret = NotCalled
    /\ ret' = [op |-> "check_inference_chain_integrity"]
              @@ check_inference_chain_integrity(artifact.premises, artifact.inferences)
    /\ UNCHANGED <<artifact, errors, warnings, calls>>

NextChain == CheckInferenceChainIntegrity

SpecChain == InitChain /\ [][NextChain]_vars

\* ---------------------------------------------------------------------------
\* Properties of check_inference_chain_integrity
\* ---------------------------------------------------------------------------
ChainReturned == ret.op = "check_inference_chain_integrity"

\* the ids the premises carry, and the premises that carry one
ChainPremiseIds == {artifact.premises[i].id : i \in {j \in DOMAIN artifact.premises :
                                                         artifact.premises[j].has_id}}

PremiseIdsDistinct ==
    \A i, j \in DOMAIN artifact.premises :
        (i # j /\ artifact.premises[i].has_id /\ artifact.premises[j].has_id)
        => artifact.premises[i].id # artifact.premises[j].id

\* inference ids differ from one another and from every premise id
ChainInferenceIdsDistinct ==
    /\ \A i, j \in DOMAIN artifact.inferences :
          i # j => artifact.inferences[i].id # artifact.inferences[j].id
    /\ \A i \in DOMAIN artifact.inferences : artifact.inferences[i].id \notin ChainPremiseIds

\* every support is a premise or an inference declared strictly earlier, so
\* that the supports graph has no cycle
SupportsPointBack ==
    \A i \in DOMAIN artifact.inferences :
       \A s \in DOMAIN artifact.inferences[i].supports :
          \/ artifact.inferences[i].supports[s] \in ChainPremiseIds
          \/ \E j \in 1..(i - 1) :
                artifact.inferences[j].id = artifact.inferences[i].supports[s]

\* the inferences an error is about
FailedAt == {ret.errors[n].index : n \in DOMAIN ret.errors}

\* only premises and the inferences that passed are in valid_ids
OnlyPassedAreReferenceable ==
    ret.valid_ids = ChainPremiseIds
                    \cup {artifact.inferences[i].id : i \in DOMAIN artifact.inferences \ FailedAt}

\* C28 as stated: is_valid = true implies that all premise and inference ids
\* are pairwise distinct, that every support is a premise or a strictly
\* earlier inference, and an inference that fails is never made referenceable.
C28_AsStated ==
    ChainReturned =>
        /\ ret.is_valid =>
              /\ PremiseIdsDistinct
              /\ ChainInferenceIdsDistinct
              /\ SupportsPointBack
        /\ OnlyPassedAreReferenceable

\* C28: is_valid = true implies that the inference ids are pairwise distinct
\* and differ from every premise id, and that every support is a premise or
\* a strictly earlier inference (hence no cycle); an inference that fails is
\* never made referenceable.  Premise ids are not compared with one another.
C28_ValidChainIsWellOrdered ==
    ChainReturned =>
        /\ ret.is_valid =>
              /\ ChainInferenceIdsDistinct
              /\ SupportsPointBack
        /\ OnlyPassedAreReferenceable

\* C28 witness: a valid chain of two inferences, the second resting on the
\* first
C28_Witness ==
    /\ ChainReturned
    /\ ret.is_valid
    /\ Len(artifact.inferences) = 2
    /\ artifact.inferences[2].supports = <<artifact.inferences[1].id>>

\* ---------------------------------------------------------------------------
\* Declaration order and the confidence gate
\* ---------------------------------------------------------------------------
\* the permutations of 1..n
Orderings(n) == {f \in [1..n -> 1..n] : \A i, j \in 1..n : f[i] = f[j] => i = j}

\* the artifact with its inferences declared in another order
Reordered(a, f) ==
    [a EXCEPT !.inferences = [k \in DOMAIN a.inferences |-> a.inferences[f[k]]]]

\* C29: for an artifact whose inference-supports graph is acyclic, every
\* permutation of the inferences list yields the same is_valid from
\* validate_confidence_propagation, also when it declares an inference
\* before one it lists in its supports.
C29_VerdictIndependentOfOrder ==
    (ConfidenceReturned /\ OnCycle(SupportEdges(artifact)) = {}) =>
        \A f \in Orderings(Len(artifact.inferences)) :
            validate_confidence_propagation(Reordered(artifact, f)).is_valid = ret.is_valid

\* ---------------------------------------------------------------------------
\* The breakdown of the coverage calculation
\* ---------------------------------------------------------------------------
\* the place of an id in the order of strings
Rank(id) == CHOOSE k \in DOMAIN IdOrder : IdOrder[k] = id

IsSorted(ids) == \A i, j \in DOMAIN ids : i < j => Rank(ids[i]) <= Rank(ids[j])

\* C30: for an artifact with unique ids, exempt_claims + checkable_claims =
\* total_claims = number of inferences + number of conclusions;
\* checked_claims + unchecked_claims = checkable_claims; unchecked_ids is
\* sorted, has unchecked_claims elements and holds checkable ids only;
\* exemptions has exempt_claims entries; details.coverage is the coverage
\* returned.
C30_BreakdownConsistent ==
    (CoverageReturned /\ ClaimIdsUnique(artifact)) =>
        LET d == ret.details
        IN  /\ d.exempt_claims + d.checkable_claims = d.total_claims
            /\ d.total_claims = Len(artifact.inferences) + Len(artifact.conclusions)
            /\ d.checked_claims + d.unchecked_claims = d.checkable_claims
            /\ IsSorted(d.unchecked_ids)
            /\ Len(d.unchecked_ids) = d.unchecked_claims
            /\ Range(d.unchecked_ids) \subseteq ClaimIds(artifact, CheckableClaims(artifact))
            /\ Len(d.exemptions) = d.exempt_claims
            /\ d.coverage = ret.coverage

\* C30 witness: two unchecked inferences declared against the order of
\* their ids, listed in order
C30_Witness ==
    /\ CoverageReturned
    /\ ClaimIdsUnique(artifact)
    /\ Len(artifact.inferences) = 2
    /\ artifact.inferences[1].id = "i2" /\ artifact.inferences[2].id = "i1"
    /\ ret.details.unchecked_ids = <<"i1", "i2">>
    /\ ret.details.unchecked_claims = 2

====
